---- MODULE Spec2Model ----
(***************************************************************************)
(* A model of the streaming near-duplicate clustering engine of            *)
(* nao-dedup (src/src/lib.rs): base encoding, minimizer extraction,        *)
(* shift-tolerant similarity, and the DedupContext state machine           *)
(* (process_read / finalize / get_cluster_id / stats).                     *)
(*                                                                         *)
(* Representation.                                                         *)
(*  - A byte string is a tuple of one-character strings (<<"A","a">>);     *)
(*    a quality string is a tuple of byte values (Phred+33).               *)
(*  - A u64 is a tuple of four 16-bit limbs, most significant first, so    *)
(*    that the 64-bit arithmetic of the rolling hash is exact.             *)
(*  - An f64 error fraction is a rational [num, den]; the fractions used   *)
(*    are dyadic, so frac * L and its floor are exact in f64 as well.      *)
(*  - An f64 score is a rational [num, den].  For the short reads used     *)
(*    here two different rational scores differ by far more than an f64    *)
(*    rounding error, so the f64 comparison is the rational comparison.    *)
(*  - Read indices are 0-based as in the code; Vec index i is element i+1. *)
(*                                                                         *)
(*  - A line of a text file is a byte string without its line terminator;  *)
(*    a file is the tuple of its lines.  Fields are cut out of a line and  *)
(*    numbers are parsed and printed character by character.               *)
(*                                                                         *)
(* Specifications.  Spec runs the engine as its callers do: process every  *)
(* read, finalize, then query.  SpecPure applies check_similarity and      *)
(* reads_are_similar to every input of a bounded set.  SpecFastq and       *)
(* SpecTsv run the main functions of the two drivers of the engine         *)
(* (dedup_interleaved_fastq, similarity_duplicate_marking); SpecVsearch    *)
(* and SpecConcat run the main functions of the tabular tools              *)
(* (process_vsearch_cluster_output, concatenate_tsvs).                     *)
(***************************************************************************)
EXTENDS Integers, Sequences, FiniteSets, TLC

VARIABLES
    dedup_params,      \* DedupContext.dedup_params
    minimizer_params,  \* DedupContext.minimizer_params
    id_to_index,       \* IDRegistry.id_to_index
    index_to_id,       \* IDRegistry.index_to_id
    buckets,           \* DedupContext.buckets: minimizer -> Vec of read indices
    exemplar_store,    \* DedupContext.exemplar_store: Vec<Option<StoredExemplar>>
    results,           \* DedupContext.results: read_idx -> cluster leader idx
    clusters,          \* DedupContext.clusters: leader idx -> ClusterStats
    finalized,         \* DedupContext.finalized
    ret,               \* the value returned by the last call
    processed,         \* history: the read pairs passed to process_read, in order
    p_in,              \* arguments of a pure-function call
    p_out,             \* its result
    args,              \* a tool's command line: parsed arguments and the input files' lines
    pc,                \* position of the tool's main function
    locals,            \* local variables of the tool's main function
    files,             \* the files the tool created: name -> lines written
    exit_status        \* the tool's exit: code and error

vars == <<dedup_params, minimizer_params, id_to_index, index_to_id, buckets,
          exemplar_store, results, clusters, finalized, ret, processed,
          p_in, p_out, args, pc, locals, files, exit_status>>

tool_vars == <<args, pc, locals, files, exit_status>>

engine_vars == <<dedup_params, minimizer_params, id_to_index, index_to_id, buckets,
                 exemplar_store, results, clusters, finalized, ret, processed>>

-----------------------------------------------------------------------------
(* Bounds of the model *)

\* process_read calls in one run of the engine
MaxReads == 3
\* length of the sequences given to check_similarity alone
MaxSeqLen == 3
\* length of each of the four sequences given to reads_are_similar
MaxPairLen == 2
\* largest max_offset given to check_similarity alone
MaxOffset == 2
\* length of the sequences given to extract_minimizers alone
MaxMinimizerSeqLen == 4
\* largest window_len (and kmer_len) given to extract_minimizers alone
MaxWindowLen == 3
\* largest num_windows given to extract_minimizers alone
MaxWindows == 2

-----------------------------------------------------------------------------
(* Small helpers *)

Min2(a, b) == IF a <= b THEN a ELSE b

Range(s) == {s[i] : i \in 1..Len(s)}

RECURSIVE SeqsUpTo(_, _)
\* all tuples over alphabet S of length 0..n
SeqsUpTo(S, n) ==
    IF n = 0 THEN {<<>>}
    ELSE LET shorter == SeqsUpTo(S, n - 1)
         IN  shorter \cup {Append(s, c) : s \in {t \in shorter : Len(t) = n - 1}, c \in S}

-----------------------------------------------------------------------------
(* u64 values: four 16-bit limbs, most significant first *)

LimbBase == 2^16

U64_ZERO == <<0, 0, 0, 0>>

U64_MAX == <<LimbBase - 1, LimbBase - 1, LimbBase - 1, LimbBase - 1>>

\* a < b as unsigned 64-bit numbers
U64Less(a, b) ==
    \E i \in 1..4 : a[i] < b[i] /\ \A j \in 1..(i - 1) : a[j] = b[j]

U64Min(a, b) == IF U64Less(b, a) THEN b ELSE a

\* (h << 2) | e for a 2-bit code e; the two bits shifted out at the top are lost
U64Shl2Or(h, e) ==
    LET n0 == h[4] * 4 + e
        n1 == h[3] * 4 + (n0 \div LimbBase)
        n2 == h[2] * 4 + (n1 \div LimbBase)
        n3 == h[1] * 4 + (n2 \div LimbBase)
    IN  <<n3 % LimbBase, n2 % LimbBase, n1 % LimbBase, n0 % LimbBase>>

\* h & m for a mask m whose limbs all have the form 2^j - 1
U64AndLow(h, m) == [i \in 1..4 |-> h[i] % (m[i] + 1)]

\* The small number x as a u64
U64Of(x) == <<0, 0, x \div LimbBase, x % LimbBase>>

-----------------------------------------------------------------------------
(* Base encoding *)

\* ENCODE_LOOKUP: A/a=0, C/c=1, G/g=2, T/t=3, everything else u64::MAX
ENCODE_LOOKUP(b) ==
    CASE b \in {"A", "a"} -> U64_ZERO
      [] b \in {"C", "c"} -> U64Of(1)
      [] b \in {"G", "g"} -> U64Of(2)
      [] b \in {"T", "t"} -> U64Of(3)
      [] OTHER -> U64_MAX

\* Option<u64>: [some |-> FALSE, v |-> 0] is None
encode_base(b) ==
    LET encoded == ENCODE_LOOKUP(b)
    IN  IF encoded = U64_MAX THEN [some |-> FALSE, v |-> 0]
        ELSE [some |-> TRUE, v |-> encoded[4]]

-----------------------------------------------------------------------------
(* Minimizer extraction *)

MAX_KMER_LEN == 32

\* MinimizerParams::new: the error, or the parameters
MinimizerParams_new(kmer_len, window_len, num_windows) ==
    IF kmer_len > MAX_KMER_LEN THEN [ok |-> FALSE, err |-> "kmer_len > 32"]
    ELSE IF kmer_len > window_len THEN [ok |-> FALSE, err |-> "kmer_len > window_len"]
    ELSE [ok |-> TRUE,
          params |-> [kmer_len |-> kmer_len, window_len |-> window_len,
                      num_windows |-> num_windows]]

\* the mask keeping the rightmost 2k bits, limb by limb
KmerMask(kmer_len) ==
    IF kmer_len = MAX_KMER_LEN THEN U64_MAX
    ELSE [i \in 1..4 |->
            LET low  == 16 * (4 - i)          \* the limb's lowest bit
                bits == 2 * kmer_len - low    \* mask bits at or above it
            IN  IF bits <= 0 THEN 0
                ELSE IF bits >= 16 THEN LimbBase - 1
                ELSE 2^bits - 1]

RECURSIVE WindowScan(_, _, _, _, _, _, _)
\* the byte loop of one window: positions pos..window_end-1 (0-based).  The
\* loop variables are updated before the next iteration starts: comparing each
\* new value with itself makes TLC compute it here, so that a window of 32
\* bases does not build a chain of 32 pending updates.
WindowScan(seq, pos, window_end, hash, valid_len, min_hash, kmer_len) ==
    IF pos >= window_end THEN min_hash
    ELSE LET e == encode_base(seq[pos + 1])
         IN  IF e.some
             THEN LET h2 == U64AndLow(U64Shl2Or(hash, e.v), KmerMask(kmer_len))
                      v2 == valid_len + 1
                      m2 == IF v2 >= kmer_len THEN U64Min(min_hash, h2) ELSE min_hash
                  IN  IF h2 = h2 /\ v2 = v2 /\ m2 = m2
                      THEN WindowScan(seq, pos + 1, window_end, h2, v2, m2, kmer_len)
                      ELSE min_hash
             ELSE WindowScan(seq, pos + 1, window_end, U64_ZERO, 0, min_hash, kmer_len)

RECURSIVE WindowLoop_push(_, _, _, _)
\* a mutant of WindowLoop: the window's minimum is pushed even when the window
\* held no k-mer
WindowLoop_push(seq, i, params, minimizers) ==
    IF i >= params.num_windows THEN minimizers
    ELSE LET window_start == i * params.window_len
             window_end   == Min2(window_start + params.window_len, Len(seq))
         IN  IF window_start >= Len(seq) THEN minimizers
             ELSE IF window_end - window_start < params.kmer_len THEN minimizers
             ELSE LET min_hash == WindowScan(seq, window_start, window_end,
                                             U64_ZERO, 0, U64_MAX, params.kmer_len)
                  IN  WindowLoop_push(seq, i + 1, params, Append(minimizers, min_hash))

RECURSIVE WindowLoop(_, _, _, _)
\* the loop over windows i..num_windows-1, appending to minimizers
WindowLoop(seq, i, params, minimizers) ==
    IF i >= params.num_windows THEN minimizers
    ELSE LET window_start == i * params.window_len
             window_end   == Min2(window_start + params.window_len, Len(seq))
         IN  IF window_start >= Len(seq) THEN minimizers
             ELSE IF window_end - window_start < params.kmer_len THEN minimizers
             ELSE LET min_hash == WindowScan(seq, window_start, window_end,
                                             U64_ZERO, 0, U64_MAX, params.kmer_len)
                  IN  WindowLoop(seq, i + 1, params,
                                 IF min_hash # U64_MAX
                                 THEN Append(minimizers, min_hash)
                                 ELSE minimizers)

extract_minimizers(seq, params) ==
    IF Len(seq) < params.kmer_len THEN <<>>
    ELSE WindowLoop(seq, 0, params, <<>>)

-----------------------------------------------------------------------------
(* Similarity checking *)

\* a mutant of FloorFrac: the budget wraps around at two errors
FloorFrac_wrap(frac, overlap_len) == ((frac.num * overlap_len) \div frac.den) % 2

\* (max_error_frac * overlap_len as f64).floor() as usize
FloorFrac(frac, overlap_len) == (frac.num * overlap_len) \div frac.den

RECURSIVE MismatchLoop_eager(_, _, _, _, _, _, _)
\* a mutant of MismatchLoop: the early exit is taken when the budget is reached
MismatchLoop_eager(seqa, seqb, off, overlap_len, i, mismatches, allowed_mismatches) ==
    IF i >= overlap_len THEN TRUE
    ELSE IF seqa[off + i + 1] # seqb[i + 1]
         THEN IF mismatches + 1 >= allowed_mismatches THEN FALSE
              ELSE MismatchLoop_eager(seqa, seqb, off, overlap_len, i + 1,
                                      mismatches + 1, allowed_mismatches)
         ELSE MismatchLoop_eager(seqa, seqb, off, overlap_len, i + 1,
                                 mismatches, allowed_mismatches)

RECURSIVE MismatchLoop(_, _, _, _, _, _, _)
\* the byte loop of check_one_way from position i (0-based); TRUE unless the
\* mismatches exceed allowed_mismatches
MismatchLoop(seqa, seqb, off, overlap_len, i, mismatches, allowed_mismatches) ==
    IF i >= overlap_len THEN TRUE
    ELSE IF seqa[off + i + 1] # seqb[i + 1]
         THEN IF mismatches + 1 > allowed_mismatches THEN FALSE
              ELSE MismatchLoop(seqa, seqb, off, overlap_len, i + 1,
                                mismatches + 1, allowed_mismatches)
         ELSE MismatchLoop(seqa, seqb, off, overlap_len, i + 1,
                           mismatches, allowed_mismatches)

\* a mutant of check_one_way: the offset must stay strictly below the budget
check_one_way_strict(seqa, seqb, off, max_error_frac) ==
    IF off >= Len(seqa) THEN FALSE
    ELSE LET overlap_len == Min2(Len(seqa) - off, Len(seqb))
         IN  IF overlap_len = 0 THEN FALSE
             ELSE LET max_errors == FloorFrac(max_error_frac, overlap_len)
                  IN  IF off >= max_errors THEN FALSE
                      ELSE MismatchLoop(seqa, seqb, off, overlap_len, 0, 0,
                                        max_errors - off)

check_one_way(seqa, seqb, off, max_error_frac) ==
    IF off >= Len(seqa) THEN FALSE
    ELSE LET overlap_len == Min2(Len(seqa) - off, Len(seqb))
         IN  IF overlap_len = 0 THEN FALSE
             ELSE LET max_errors == FloorFrac(max_error_frac, overlap_len)
                  IN  IF off > max_errors THEN FALSE
                      ELSE MismatchLoop(seqa, seqb, off, overlap_len, 0, 0,
                                        max_errors - off)

RECURSIVE OffsetLoop_oneway(_, _, _, _, _)
\* a mutant of OffsetLoop: only s1 is shifted
OffsetLoop_oneway(s1, s2, offset, max_offset, max_error_frac) ==
    IF offset > max_offset THEN FALSE
    ELSE IF check_one_way(s1, s2, offset, max_error_frac) THEN TRUE
    ELSE OffsetLoop_oneway(s1, s2, offset + 1, max_offset, max_error_frac)

RECURSIVE OffsetLoop(_, _, _, _, _)
\* the loop "for offset in 0..=max_offset" from offset on
OffsetLoop(s1, s2, offset, max_offset, max_error_frac) ==
    IF offset > max_offset THEN FALSE
    ELSE IF check_one_way(s1, s2, offset, max_error_frac) THEN TRUE
    ELSE IF offset > 0 /\ check_one_way(s2, s1, offset, max_error_frac) THEN TRUE
    ELSE OffsetLoop(s1, s2, offset + 1, max_offset, max_error_frac)

check_similarity(seq1, seq2, max_offset, max_error_frac) ==
    OffsetLoop(seq1, seq2, 0, max_offset, max_error_frac)

\* a mutant of reads_are_similar: both orientations must match
reads_are_similar_both(rp, exemplar, params) ==
    /\ check_similarity(rp.fwd_seq, exemplar.fwd_seq, params.max_offset, params.max_error_frac)
    /\ check_similarity(rp.rev_seq, exemplar.rev_seq, params.max_offset, params.max_error_frac)
    /\ check_similarity(rp.fwd_seq, exemplar.rev_seq, params.max_offset, params.max_error_frac)
    /\ check_similarity(rp.rev_seq, exemplar.fwd_seq, params.max_offset, params.max_error_frac)

reads_are_similar(rp, exemplar, params) ==
    IF check_similarity(rp.fwd_seq, exemplar.fwd_seq, params.max_offset, params.max_error_frac)
       /\ check_similarity(rp.rev_seq, exemplar.rev_seq, params.max_offset, params.max_error_frac)
    THEN TRUE
    ELSE IF check_similarity(rp.fwd_seq, exemplar.rev_seq, params.max_offset, params.max_error_frac)
            /\ check_similarity(rp.rev_seq, exemplar.fwd_seq, params.max_offset, params.max_error_frac)
    THEN TRUE
    ELSE FALSE

-----------------------------------------------------------------------------
(* Read pairs and scores *)

PHRED_OFFSET == 33

SCORE_QUALITY_SCALE == 1000

RECURSIVE SumPhred(_, _)
\* the sum of (b - 33) over the bytes of qual from position i (1-based) on
SumPhred(qual, i) ==
    IF i > Len(qual) THEN 0 ELSE (qual[i] - PHRED_OFFSET) + SumPhred(qual, i + 1)

\* ReadPair::mean_quality, as the rational total / count (0 when count = 0)
mean_quality(rp) ==
    LET total == SumPhred(rp.fwd_qual \o rp.rev_qual, 1)
        count == Len(rp.fwd_qual) + Len(rp.rev_qual)
    IN  IF count = 0 THEN [num |-> 0, den |-> 1]
        ELSE [num |-> total, den |-> count]

\* score = mean_q * 1000.0 + length
Score(rp) ==
    LET mean_q == mean_quality(rp)
        length == Len(rp.fwd_seq) + Len(rp.rev_seq)
    IN  [num |-> mean_q.num * SCORE_QUALITY_SCALE + length * mean_q.den,
         den |-> mean_q.den]

\* a > b on scores
ScoreGT(a, b) == a.num * b.den > b.num * a.den

ScoreEq(a, b) == a.num * b.den = b.num * a.den

-----------------------------------------------------------------------------
(* ID registry *)

\* IDRegistry::get_or_create on the registry (i2x, x2i): the index and the
\* registry after the call
get_or_create(i2x, x2i, id) ==
    IF id \in DOMAIN i2x
    THEN [idx |-> i2x[id], id_to_index |-> i2x, index_to_id |-> x2i]
    ELSE LET idx == Len(x2i)
         IN  [idx |-> idx,
              id_to_index |-> [k \in DOMAIN i2x \cup {id} |->
                                  IF k = id THEN idx ELSE i2x[k]],
              index_to_id |-> Append(x2i, id)]

\* IDRegistry::get_id
get_id(x2i, idx) == x2i[idx + 1]

-----------------------------------------------------------------------------
(* DedupContext::process_read *)

\* Option<StoredExemplar>::None
NoExemplar == [some |-> FALSE, fwd_seq |-> <<>>, rev_seq |-> <<>>]

\* exemplar_store.get(idx).and_then(|opt| opt.as_ref())
ExemplarAt(store, idx) ==
    IF idx + 1 <= Len(store) THEN store[idx + 1] ELSE NoExemplar

\* Vec::resize(new_len, fill) when the vector is shorter than new_len
ResizeTo(v, new_len, fill) ==
    IF Len(v) < new_len
    THEN v \o [i \in 1..(new_len - Len(v)) |-> fill]
    ELSE v

RECURSIVE BucketLoop_last(_, _, _, _, _)
\* a mutant of BucketLoop: the loop goes on after a match and the last similar
\* candidate of the bucket is returned
BucketLoop_last(bucket_reads, j, checked, tested, rp) ==
    IF j > Len(bucket_reads)
    THEN [found |-> FALSE, idx |-> 0, checked |-> checked, tested |-> tested]
    ELSE LET candidate_idx == bucket_reads[j]
         IN  IF candidate_idx \in checked
             THEN BucketLoop_last(bucket_reads, j + 1, checked, tested, rp)
             ELSE LET candidate == ExemplarAt(exemplar_store, candidate_idx)
                      checked2  == checked \cup {candidate_idx}
                      rest == BucketLoop_last(bucket_reads, j + 1, checked2,
                                              Append(tested, candidate_idx), rp)
                  IN  IF candidate.some /\ reads_are_similar(rp, candidate, dedup_params)
                         /\ ~rest.found
                      THEN [found |-> TRUE, idx |-> candidate_idx,
                            checked |-> rest.checked, tested |-> rest.tested]
                      ELSE rest

RECURSIVE BucketLoop(_, _, _, _, _)
\* "for &candidate_idx in bucket_reads" from position j (1-based) on.
\* Returns the match found (if any), the set checked_indices and the list of
\* candidates handed to reads_are_similar.
BucketLoop(bucket_reads, j, checked, tested, rp) ==
    IF j > Len(bucket_reads)
    THEN [found |-> FALSE, idx |-> 0, checked |-> checked, tested |-> tested]
    ELSE LET candidate_idx == bucket_reads[j]
         IN  IF candidate_idx \in checked
             THEN BucketLoop(bucket_reads, j + 1, checked, tested, rp)
             ELSE LET candidate == ExemplarAt(exemplar_store, candidate_idx)
                      checked2  == checked \cup {candidate_idx}
                  IN  IF candidate.some
                      THEN IF reads_are_similar(rp, candidate, dedup_params)
                           THEN [found |-> TRUE, idx |-> candidate_idx,
                                 checked |-> checked2,
                                 tested |-> Append(tested, candidate_idx)]
                           ELSE BucketLoop(bucket_reads, j + 1, checked2,
                                           Append(tested, candidate_idx), rp)
                      ELSE BucketLoop(bucket_reads, j + 1, checked2, tested, rp)

RECURSIVE ProbeLoop(_, _, _, _, _)
\* "'outer: for &min_hash in &all_mins" from position m (1-based) on
ProbeLoop(all_mins, m, checked, tested, rp) ==
    IF m > Len(all_mins)
    THEN [found |-> FALSE, idx |-> 0, checked |-> checked, tested |-> tested]
    ELSE IF all_mins[m] \in DOMAIN buckets
         THEN LET r == BucketLoop(buckets[all_mins[m]], 1, checked, tested, rp)
              IN  IF r.found THEN r
                  ELSE ProbeLoop(all_mins, m + 1, r.checked, r.tested, rp)
         ELSE ProbeLoop(all_mins, m + 1, checked, tested, rp)

\* fwd_mins extended by rev_mins
AllMins(rp) ==
    extract_minimizers(rp.fwd_seq, minimizer_params)
        \o extract_minimizers(rp.rev_seq, minimizer_params)

\* a mutant of Probe: the first leader of the first bucket found is taken
\* without a similarity test
Probe_untested(rp) ==
    LET all_mins == AllMins(rp)
        present == {m \in 1..Len(all_mins) : all_mins[m] \in DOMAIN buckets}
    IN  IF present = {}
        THEN [found |-> FALSE, idx |-> 0, checked |-> {}, tested |-> <<>>]
        ELSE LET m == CHOOSE x \in present : \A y \in present : x <= y
             IN  [found |-> TRUE, idx |-> buckets[all_mins[m]][1], checked |-> {},
                  tested |-> <<>>]

\* the probe of process_read: matching_cluster_idx as [found, idx, ...]
Probe(rp) == ProbeLoop(AllMins(rp), 1, {}, <<>>, rp)

\* a mutant of JoinCluster: a tie replaces the best member as well
JoinCluster_ge(cl, cluster_idx, read_idx, score) ==
    IF cluster_idx \in DOMAIN cl
    THEN LET cluster == cl[cluster_idx]
         IN  [cl EXCEPT ![cluster_idx] =
                 IF ~ScoreGT(cluster.best_score, score)
                 THEN [best_read_idx |-> read_idx, best_score |-> score,
                       count |-> cluster.count + 1]
                 ELSE [cluster EXCEPT !.count = cluster.count + 1]]
    ELSE cl

\* a mutant of JoinCluster: a member that replaces the best member is not counted
JoinCluster_uncounted(cl, cluster_idx, read_idx, score) ==
    IF cluster_idx \in DOMAIN cl
    THEN LET cluster == cl[cluster_idx]
         IN  [cl EXCEPT ![cluster_idx] =
                 IF ScoreGT(score, cluster.best_score)
                 THEN [best_read_idx |-> read_idx, best_score |-> score,
                       count |-> cluster.count]
                 ELSE [cluster EXCEPT !.count = cluster.count + 1]]
    ELSE cl

\* the cluster-stats map after a read with index read_idx and this score
\* joined the cluster cluster_idx
JoinCluster(cl, cluster_idx, read_idx, score) ==
    IF cluster_idx \in DOMAIN cl
    THEN LET cluster == cl[cluster_idx]
         IN  [cl EXCEPT ![cluster_idx] =
                 IF ScoreGT(score, cluster.best_score)
                 THEN [best_read_idx |-> read_idx, best_score |-> score,
                       count |-> cluster.count + 1]
                 ELSE [cluster EXCEPT !.count = cluster.count + 1]]
    ELSE cl

\* a mutant of NewCluster: the new cluster names the first read as its best member
NewCluster_first(cl, read_idx, score) ==
    [k \in DOMAIN cl \cup {read_idx} |->
        IF k = read_idx
        THEN [best_read_idx |-> 0, best_score |-> score, count |-> 1]
        ELSE cl[k]]

\* a mutant of NewCluster: the map is replaced by one that holds the new
\* cluster only
NewCluster_only(cl, read_idx, score) ==
    [k \in {read_idx} |-> [best_read_idx |-> read_idx, best_score |-> score, count |-> 1]]

\* clusters.insert(read_idx, ClusterStats {read_idx, score, 1})
NewCluster(cl, read_idx, score) ==
    [k \in DOMAIN cl \cup {read_idx} |->
        IF k = read_idx
        THEN [best_read_idx |-> read_idx, best_score |-> score, count |-> 1]
        ELSE cl[k]]

\* a mutant of PushBuckets: the new leader is not indexed
PushBuckets_none(bk, all_mins, m, read_idx) == bk

\* a mutant of PushBuckets: the new leader is indexed under its first
\* minimizer only
PushBuckets_first(bk, all_mins, m, read_idx) ==
    IF Len(all_mins) = 0 THEN bk
    ELSE LET h == all_mins[1]
             old == IF h \in DOMAIN bk THEN bk[h] ELSE <<>>
         IN  [k \in DOMAIN bk \cup {h} |-> IF k = h THEN Append(old, read_idx) ELSE bk[k]]

RECURSIVE PushBuckets(_, _, _, _)
\* "for &min_hash in &all_mins { buckets.entry(min_hash).or_insert_with(Vec::new).push(read_idx) }"
PushBuckets(bk, all_mins, m, read_idx) ==
    IF m > Len(all_mins) THEN bk
    ELSE LET h == all_mins[m]
             old == IF h \in DOMAIN bk THEN bk[h] ELSE <<>>
         IN  PushBuckets([k \in DOMAIN bk \cup {h} |->
                             IF k = h THEN Append(old, read_idx) ELSE bk[k]],
                         all_mins, m + 1, read_idx)

\* exemplar_store after storing the sequences of rp at read_idx
StoreExemplar(store, read_idx, rp) ==
    [ResizeTo(store, read_idx + 1, NoExemplar) EXCEPT ![read_idx + 1] =
        [some |-> TRUE, fwd_seq |-> rp.fwd_seq, rev_seq |-> rp.rev_seq]]

\* a mutant of RecordResult: records the read's own index, not its leader's
RecordResult_own(res, read_idx, cluster_leader_idx) ==
    [ResizeTo(res, read_idx + 1, 0) EXCEPT ![read_idx + 1] = read_idx]

\* results after recording the assignment of read_idx
RecordResult(res, read_idx, cluster_leader_idx) ==
    [ResizeTo(res, read_idx + 1, 0) EXCEPT ![read_idx + 1] = cluster_leader_idx]

process_read(rp) ==
    LET reg      == get_or_create(id_to_index, index_to_id, rp.read_id)
        read_idx == reg.idx
        score    == Score(rp)
        all_mins == AllMins(rp)
        hit      == Probe(rp)
        cluster_leader_idx == IF hit.found THEN hit.idx ELSE read_idx
    IN  /\ id_to_index' = reg.id_to_index
        /\ index_to_id' = reg.index_to_id
        /\ IF hit.found
           THEN /\ clusters' = JoinCluster(clusters, hit.idx, read_idx, score)
                /\ UNCHANGED <<exemplar_store, buckets>>
           ELSE /\ clusters' = NewCluster(clusters, read_idx, score)
                /\ exemplar_store' = StoreExemplar(exemplar_store, read_idx, rp)
                /\ buckets' = PushBuckets(buckets, all_mins, 1, read_idx)
        /\ results' = RecordResult(results, read_idx, cluster_leader_idx)
        /\ ret' = [op |-> "process_read", arg |-> rp.read_id,
                   id |-> get_id(reg.index_to_id, cluster_leader_idx),
                   pair |-> <<0, 0>>]

-----------------------------------------------------------------------------
(* DedupContext::finalize, get_cluster_id, stats *)

RECURSIVE FinalizeLoop_byread(_, _)
\* a mutant of FinalizeLoop: looks the cluster up by the read's index, not by
\* the read's current entry
FinalizeLoop_byread(res, read_idx) ==
    IF read_idx >= Len(res) THEN res
    ELSE FinalizeLoop_byread(
             IF read_idx \in DOMAIN clusters
             THEN [res EXCEPT ![read_idx + 1] = clusters[read_idx].best_read_idx]
             ELSE res,
             read_idx + 1)

\* a mutant of FinalizeLoop: rewrites nothing
FinalizeLoop_skip(res, read_idx) == res

RECURSIVE FinalizeLoop_fallback(_, _)
\* a mutant of FinalizeLoop: an entry that is not a key of the cluster-stats
\* map is replaced by the read's own index
FinalizeLoop_fallback(res, read_idx) ==
    IF read_idx >= Len(res) THEN res
    ELSE LET cluster_leader_idx == res[read_idx + 1]
         IN  FinalizeLoop_fallback(
                 IF cluster_leader_idx \in DOMAIN clusters
                 THEN [res EXCEPT ![read_idx + 1] =
                          clusters[cluster_leader_idx].best_read_idx]
                 ELSE [res EXCEPT ![read_idx + 1] = read_idx],
                 read_idx + 1)

RECURSIVE FinalizeLoop(_, _)
\* "for read_idx in 0..self.results.len()" from read_idx on, rewriting res in place
FinalizeLoop(res, read_idx) ==
    IF read_idx >= Len(res) THEN res
    ELSE LET cluster_leader_idx == res[read_idx + 1]
         IN  FinalizeLoop(
                 IF cluster_leader_idx \in DOMAIN clusters
                 THEN [res EXCEPT ![read_idx + 1] =
                          clusters[cluster_leader_idx].best_read_idx]
                 ELSE res,
                 read_idx + 1)

\* a mutant of finalize: the exemplar store is kept
finalize_keep ==
    /\ results' = FinalizeLoop(results, 0)
    /\ finalized' = TRUE
    /\ buckets' = <<>>
    /\ exemplar_store' = exemplar_store

finalize ==
    /\ results' = FinalizeLoop(results, 0)
    /\ finalized' = TRUE
    /\ buckets' = <<>>
    /\ exemplar_store' = <<>>

\* a mutant of get_cluster_id: an id that is not registered is answered with the
\* id of the first read
get_cluster_id_first(read_id) ==
    IF read_id \in DOMAIN id_to_index
    THEN LET read_idx == id_to_index[read_id]
         IN  IF read_idx + 1 <= Len(results)
             THEN get_id(index_to_id, results[read_idx + 1])
             ELSE read_id
    ELSE IF Len(index_to_id) > 0 THEN get_id(index_to_id, 0) ELSE read_id

get_cluster_id(read_id) ==
    IF read_id \in DOMAIN id_to_index
    THEN LET read_idx == id_to_index[read_id]
         IN  IF read_idx + 1 <= Len(results)
             THEN get_id(index_to_id, results[read_idx + 1])
             ELSE read_id
    ELSE read_id

stats == <<Len(results), Cardinality(DOMAIN clusters)>>

\* the map deduplicate_read_pairs builds from the finalized context:
\* read id -> id of results[read_idx]
result_map ==
    [read_id \in {get_id(index_to_id, read_idx) : read_idx \in 0..(Len(results) - 1)} |->
        get_id(index_to_id, results[id_to_index[read_id] + 1])]

-----------------------------------------------------------------------------
(* Inputs *)

\* the ids of the reads of one input, in input order (ids are unique within an
\* input; the n-th process_read call gets the n-th id)
ReadIds == <<"r0", "r1", "r2", "r3", "r4", "r5">>

\* an id that is never passed to process_read
UnknownId == "zz"

\* DedupParams::default().max_offset
DEFAULT_MAX_OFFSET == 1

\* the configurations the engine is built with:
\*  - max_offset 1, max_error_frac 0.5 (one mismatch allowed in an overlap of
\*    two bases), kmer_len 2, window_len 2, num_windows 2;
\*  - the default max_offset 1 and max_error_frac 0.01 (no mismatch allowed in
\*    an overlap shorter than 100 bases, in f64 as in the rationals),
\*    kmer_len 1, window_len 1, num_windows 2 (two minimizers per sequence).
EngineConfigs ==
    { [dedup |-> [max_offset |-> DEFAULT_MAX_OFFSET,
                  max_error_frac |-> [num |-> 1, den |-> 2]],
       minimizer |-> MinimizerParams_new(2, 2, 2).params],
      [dedup |-> [max_offset |-> DEFAULT_MAX_OFFSET,
                  max_error_frac |-> [num |-> 1, den |-> 100]],
       minimizer |-> MinimizerParams_new(1, 1, 2).params] }

\* the reads fed to the engine: forward and reverse sequence, and the Phred
\* value of every base of the forward and of the reverse quality string
ReadShapePool ==
    { [fwd |-> <<"A", "A">>,      rev |-> <<"A", "A">>, fq |-> 0, rq |-> 0],
      [fwd |-> <<"A", "A">>,      rev |-> <<"A", "A">>, fq |-> 1, rq |-> 1],
      \* one base longer; one mismatch away from AA and from CC
      [fwd |-> <<"A", "C", "C">>, rev |-> <<"A", "A">>, fq |-> 0, rq |-> 0],
      \* another forward minimizer; two mismatches away from AA
      [fwd |-> <<"C", "C">>,      rev |-> <<"A", "A">>, fq |-> 0, rq |-> 0],
      \* its mate-swapped copy, with a mean quality of 1/2
      [fwd |-> <<"A", "A">>,      rev |-> <<"C", "C">>, fq |-> 1, rq |-> 0],
      [fwd |-> <<"A", "A">>,      rev |-> <<"C", "C">>, fq |-> 0, rq |-> 0],
      \* AA with the case of both bases changed
      [fwd |-> <<"a", "a">>,      rev |-> <<"A", "A">>, fq |-> 0, rq |-> 0],
      \* no minimizer: every base invalid, and shorter than kmer_len
      [fwd |-> <<"N", "N">>,      rev |-> <<"N">>,      fq |-> 0, rq |-> 0],
      \* a minimizer, and an empty reverse read
      [fwd |-> <<"A", "A">>,      rev |-> <<>>,         fq |-> 0, rq |-> 0] }

\* the quality string of a sequence, every base with Phred value q
UniformQual(seq, q) == [i \in 1..Len(seq) |-> PHRED_OFFSET + q]

MakeReadPair(id, sh) ==
    [read_id |-> id, fwd_seq |-> sh.fwd, rev_seq |-> sh.rev,
     fwd_qual |-> UniformQual(sh.fwd, sh.fq), rev_qual |-> UniformQual(sh.rev, sh.rq)]

\* error fractions given to the similarity functions (all exact in f64)
Fracs == { [num |-> 0, den |-> 1], [num |-> 1, den |-> 4], [num |-> 1, den |-> 2],
           [num |-> 1, den |-> 1], [num |-> 2, den |-> 1] }

SimSeqs == SeqsUpTo({"A", "C", "a"}, MaxSeqLen)

PairSeqs == SeqsUpTo({"A", "a"}, MaxPairLen)

NoCall == [kind |-> "none"]

NoResult == [done |-> FALSE, v |-> FALSE]

\* the process has not exited
Running == [code |-> -1, err |-> [kind |-> "none"]]

\* no tool is running: the engine is used as a library
NoTool ==
    /\ args = [tool |-> "none"]
    /\ pc = "library"
    /\ locals = [tool |-> "none"]
    /\ files = <<>>
    /\ exit_status = Running

-----------------------------------------------------------------------------
(* The engine as a state machine *)

\* DedupContext::new
Init ==
    /\ \E cfg \in EngineConfigs :
          /\ dedup_params = cfg.dedup
          /\ minimizer_params = cfg.minimizer
    /\ id_to_index = <<>>
    /\ index_to_id = <<>>
    /\ buckets = <<>>
    /\ exemplar_store = <<>>
    /\ results = <<>>
    /\ clusters = <<>>
    /\ finalized = FALSE
    /\ ret = [op |-> "new", arg |-> "", id |-> "", pair |-> <<0, 0>>]
    /\ processed = <<>>
    /\ p_in = NoCall
    /\ p_out = NoResult
    /\ NoTool

\* one process_read call of the streaming phase; the callers of the engine
\* (deduplicate_read_pairs and the drivers) process every read before finalize
ProcessRead ==
    /\ ~finalized
    /\ Len(processed) < MaxReads
    /\ \E sh \in ReadShapePool :
          LET rp == MakeReadPair(ReadIds[Len(processed) + 1], sh)
          IN  /\ process_read(rp)
              /\ processed' = Append(processed, rp)
    /\ UNCHANGED <<dedup_params, minimizer_params, finalized, p_in, p_out>>
    /\ UNCHANGED tool_vars

Finalize ==
    /\ finalize
    /\ ret' = [op |-> "finalize", arg |-> "", id |-> "", pair |-> <<0, 0>>]
    /\ UNCHANGED <<dedup_params, minimizer_params, id_to_index, index_to_id,
                   clusters, processed, p_in, p_out>>
    /\ UNCHANGED tool_vars

GetClusterId ==
    /\ \E read_id \in Range(index_to_id) \cup {UnknownId} :
          ret' = [op |-> "get_cluster_id", arg |-> read_id,
                  id |-> get_cluster_id(read_id), pair |-> <<0, 0>>]
    /\ UNCHANGED <<dedup_params, minimizer_params, id_to_index, index_to_id, buckets,
                   exemplar_store, results, clusters, finalized, processed,
                   p_in, p_out>>
    /\ UNCHANGED tool_vars

Stats ==
    /\ ret' = [op |-> "stats", arg |-> "", id |-> "", pair |-> stats]
    /\ UNCHANGED <<dedup_params, minimizer_params, id_to_index, index_to_id, buckets,
                   exemplar_store, results, clusters, finalized, processed,
                   p_in, p_out>>
    /\ UNCHANGED tool_vars

Next == ProcessRead \/ Finalize \/ GetClusterId \/ Stats

Spec == Init /\ [][Next]_vars

-----------------------------------------------------------------------------
(* The similarity functions applied to bounded inputs *)

InitPure ==
    /\ \E cfg \in EngineConfigs :
          /\ cfg.minimizer.kmer_len = 2
          /\ dedup_params = cfg.dedup
          /\ minimizer_params = cfg.minimizer
    /\ id_to_index = <<>>
    /\ index_to_id = <<>>
    /\ buckets = <<>>
    /\ exemplar_store = <<>>
    /\ results = <<>>
    /\ clusters = <<>>
    /\ finalized = FALSE
    /\ ret = [op |-> "new", arg |-> "", id |-> "", pair |-> <<0, 0>>]
    /\ processed = <<>>
    /\ p_out = NoResult
    /\ NoTool
    /\ \/ \E s1 \in SimSeqs, s2 \in SimSeqs, off \in 0..MaxOffset, frac \in Fracs :
             p_in = [kind |-> "check_similarity", seq1 |-> s1, seq2 |-> s2,
                     max_offset |-> off, max_error_frac |-> frac]
       \/ \E f1 \in PairSeqs, r1 \in PairSeqs, f2 \in PairSeqs, r2 \in PairSeqs,
             off \in 0..DEFAULT_MAX_OFFSET, frac \in Fracs :
             p_in = [kind |-> "reads_are_similar",
                     rp |-> [read_id |-> "r0", fwd_seq |-> f1, rev_seq |-> r1,
                             fwd_qual |-> UniformQual(f1, 0),
                             rev_qual |-> UniformQual(r1, 0)],
                     exemplar |-> [some |-> TRUE, fwd_seq |-> f2, rev_seq |-> r2],
                     params |-> [max_offset |-> off, max_error_frac |-> frac]]
       \* short sequences with every small configuration MinimizerParams::new accepts
       \/ \E seq \in SeqsUpTo({"A", "c", "T", "N"}, MaxMinimizerSeqLen),
             w \in 1..MaxWindowLen, k \in 1..MaxWindowLen, n \in 0..MaxWindows :
             /\ MinimizerParams_new(k, w, n).ok
             /\ p_in = [kind |-> "extract_minimizers", seq |-> seq,
                        params |-> MinimizerParams_new(k, w, n).params]
       \* k-mers of the largest length, which fill the 64 bits of a hash
       \/ LET run(b) == [i \in 1..MAX_KMER_LEN |-> b]
          IN  \E seq \in { run("T"), run("C"), run("T") \o <<"A">>, <<"A">> \o run("T"),
                           [run("T") EXCEPT ![5] = "N"], run("C") \o run("T"),
                           run("T") \o run("C") },
                 w \in {MAX_KMER_LEN, MAX_KMER_LEN + 1}, n \in 1..2 :
                 p_in = [kind |-> "extract_minimizers", seq |-> seq,
                         params |-> MinimizerParams_new(MAX_KMER_LEN, w, n).params]

ApplyCheckSimilarity ==
    /\ p_in.kind = "check_similarity"
    /\ ~p_out.done
    /\ p_out' = [done |-> TRUE,
                 v |-> check_similarity(p_in.seq1, p_in.seq2, p_in.max_offset,
                                        p_in.max_error_frac)]
    /\ UNCHANGED <<engine_vars, p_in>>
    /\ UNCHANGED tool_vars

ApplyReadsAreSimilar ==
    /\ p_in.kind = "reads_are_similar"
    /\ ~p_out.done
    /\ p_out' = [done |-> TRUE,
                 v |-> reads_are_similar(p_in.rp, p_in.exemplar, p_in.params)]
    /\ UNCHANGED <<engine_vars, p_in>>
    /\ UNCHANGED tool_vars

ApplyExtractMinimizers ==
    /\ p_in.kind = "extract_minimizers"
    /\ ~p_out.done
    /\ p_out' = [done |-> TRUE, v |-> extract_minimizers(p_in.seq, p_in.params)]
    /\ UNCHANGED <<engine_vars, p_in>>
    /\ UNCHANGED tool_vars

NextPure == ApplyCheckSimilarity \/ ApplyReadsAreSimilar \/ ApplyExtractMinimizers

SpecPure == InitPure /\ [][NextPure]_vars

-----------------------------------------------------------------------------
(* Properties of the engine (specification Spec) *)

\* the read indices processed so far
Processed == 0..(Len(processed) - 1)

\* the read pair with index r
ReadOf(r) == processed[r + 1]

\* the reads whose assignment entry is c
Members(c) == {r \in Processed : r + 1 <= Len(results) /\ results[r + 1] = c}

SameSeqs(a, b) == a.fwd_seq = b.fwd_seq /\ a.rev_seq = b.rev_seq

\* C1 (Partition): before finalize, every processed read index has exactly one
\* assignment entry, that entry is a key of the cluster-stats map, and stats()
\* reports as total_reads the number of reads processed.
C1_Partition ==
    ~finalized =>
        /\ Len(results) = Len(processed)
        /\ \A r \in Processed : results[r + 1] \in DOMAIN clusters
        /\ \A r \in Processed : Cardinality({c \in DOMAIN clusters : r \in Members(c)}) = 1
        /\ stats[1] = Len(processed)
        /\ ret.op = "stats" => ret.pair[1] = Len(processed)

\* three reads in two clusters, one of them joined by a later read
C1_Witness ==
    /\ ~finalized
    /\ Len(processed) = MaxReads
    /\ Cardinality(DOMAIN clusters) = 2
    /\ \E r \in Processed : results[r + 1] # r
    /\ ret.op = "stats"

\* C2: the first finalize rewrites the entry of every processed read r to the
\* best member (best_read_idx at finalize time) of the cluster whose leader was
\* r's streaming assignment, and get_cluster_id of r's id then returns the id
\* of that best member.
C2_FinalizeResolves ==
    [][(~finalized /\ finalized') =>
          \A r \in Processed :
             LET leader == results[r + 1]
             IN  /\ leader \in DOMAIN clusters
                 /\ results'[r + 1] = clusters[leader].best_read_idx
                 /\ get_cluster_id(ReadOf(r).read_id)'
                       = get_id(index_to_id, clusters[leader].best_read_idx)]_vars

\* after finalize, a read that is not the best member of its cluster is asked
\* for and answered with the id of the best member, which is not the leader
C2_Witness ==
    /\ finalized
    /\ \E l \in DOMAIN clusters :
          LET best == clusters[l].best_read_idx
          IN  /\ best # l
              /\ results[l + 1] = best
              /\ ret.op = "get_cluster_id"
              /\ ret.arg = get_id(index_to_id, l)
              /\ ret.id = get_id(index_to_id, best)

\* C3 (Exemplar-set closure): after finalize the set of assignment entries is
\* the set of the clusters' best members, and the values of the map
\* deduplicate_read_pairs returns are the ids of those best members.
C3_ExemplarClosure ==
    finalized =>
        /\ Range(results) = {clusters[c].best_read_idx : c \in DOMAIN clusters}
        /\ {result_map[id] : id \in DOMAIN result_map}
              = {get_id(index_to_id, clusters[c].best_read_idx) : c \in DOMAIN clusters}

\* finalized, two clusters, one of them with a best member other than its leader
C3_Witness ==
    /\ finalized
    /\ Cardinality(DOMAIN clusters) = 2
    /\ Len(results) = MaxReads
    /\ \E c \in DOMAIN clusters : clusters[c].best_read_idx # c

\* the score of the claim: 1000 * mean Phred + forward length + reverse length,
\* as the rational (1000 * total + (lf + lr) * count) / count
ClaimScore(rp) ==
    LET quals == rp.fwd_qual \o rp.rev_qual
        lens  == Len(rp.fwd_seq) + Len(rp.rev_seq)
        total == SumPhred(rp.fwd_qual, 1) + SumPhred(rp.rev_qual, 1)
    IN  IF Len(quals) = 0 THEN [num |-> lens, den |-> 1]
        ELSE [num |-> 1000 * total + lens * Len(quals), den |-> Len(quals)]

\* C4 (Best-member rule): during streaming, for every cluster, best_read_idx is
\* a member of the cluster, best_score is the maximum score over its members,
\* and among the members with that score best_read_idx was processed first.
C4_BestMember ==
    ~finalized =>
        \A c \in DOMAIN clusters :
            LET best == clusters[c].best_read_idx
                bs   == clusters[c].best_score
            IN  /\ best \in Members(c)
                /\ ScoreEq(bs, ClaimScore(ReadOf(best)))
                /\ \A m \in Members(c) : ~ScoreGT(ClaimScore(ReadOf(m)), bs)
                /\ \A m \in Members(c) : ScoreEq(ClaimScore(ReadOf(m)), bs) => best <= m

\* a cluster whose best member replaced the leader and was not replaced by a
\* later member with the same score
C4_Witness ==
    /\ ~finalized
    /\ \E c \in DOMAIN clusters :
          LET best == clusters[c].best_read_idx
          IN  /\ best # c
              /\ \E m \in Members(c) :
                    m > best /\ ScoreEq(ClaimScore(ReadOf(m)), clusters[c].best_score)

\* C5 as claimed: any two reads with identical forward and identical reverse
\* sequences, processed by one engine, end in one cluster.
C5_IdenticalPair_AsClaimed ==
    (~finalized /\ Len(processed) = 2 /\ SameSeqs(ReadOf(0), ReadOf(1))) =>
        /\ Cardinality(DOMAIN clusters) = 1
        /\ results = <<0, 0>>

\* C5 (Identical pair), amended: two reads with identical forward and identical
\* reverse sequences, both sequences non-empty and yielding at least one
\* minimizer, end in one cluster: the second joins the cluster of the first.
C5_IdenticalPair ==
    (/\ ~finalized
     /\ Len(processed) = 2
     /\ SameSeqs(ReadOf(0), ReadOf(1))
     /\ ReadOf(0).fwd_seq # <<>>
     /\ ReadOf(0).rev_seq # <<>>
     /\ AllMins(ReadOf(0)) # <<>>) =>
        /\ Cardinality(DOMAIN clusters) = 1
        /\ results = <<0, 0>>
        /\ clusters[0].count = 2

\* two identical reads of different quality in one cluster
C5_Witness ==
    /\ ~finalized
    /\ Len(processed) = 2
    /\ SameSeqs(ReadOf(0), ReadOf(1))
    /\ ReadOf(0).fwd_qual # ReadOf(1).fwd_qual
    /\ AllMins(ReadOf(0)) # <<>>
    /\ results = <<0, 0>>

\* the upper-case form of a base
ToUpper(b) ==
    CASE b = "a" -> "A" [] b = "c" -> "C" [] b = "g" -> "G" [] b = "t" -> "T"
      [] OTHER -> b

\* t is s with the letter case of some bases changed
CaseVariant(s, t) ==
    Len(s) = Len(t) /\ \A i \in 1..Len(s) : ToUpper(s[i]) = ToUpper(t[i])

\* the stored exemplar of a read pair
ExemplarOf(rp) == [some |-> TRUE, fwd_seq |-> rp.fwd_seq, rev_seq |-> rp.rev_seq]

\* C9 as claimed: a read B that differs from the leader A only in letter case
\* gets A's minimizers and joins A's cluster whenever an exact copy of A would.
C9_CaseInsensitive ==
    (/\ ~finalized
     /\ Len(processed) = 2
     /\ CaseVariant(ReadOf(0).fwd_seq, ReadOf(1).fwd_seq)
     /\ CaseVariant(ReadOf(0).rev_seq, ReadOf(1).rev_seq)
     /\ AllMins(ReadOf(0)) # <<>>
     /\ reads_are_similar(ReadOf(0), ExemplarOf(ReadOf(0)), dedup_params)) =>
        /\ AllMins(ReadOf(1)) = AllMins(ReadOf(0))
        /\ results = <<0, 0>>

\* the bases with a 2-bit code
ValidBases == {"A", "a", "C", "c", "G", "g", "T", "t"}

\* a sequence the claim says yields no minimizer: every base invalid, or
\* shorter than kmer_len
YieldsNoMinimizer(seq) ==
    \/ Len(seq) < minimizer_params.kmer_len
    \/ \A i \in 1..Len(seq) : seq[i] \notin ValidBases

\* C10 (No-match on empty minimizer list): during streaming, a read whose two
\* sequences yield no minimizer is the leader of a cluster of its own making,
\* whatever was processed before it, and is listed in no bucket; the call
\* that processed it returned its own id.
C10_NoMinimizerOpensCluster ==
    ~finalized =>
        \A r \in Processed :
            (YieldsNoMinimizer(ReadOf(r).fwd_seq) /\ YieldsNoMinimizer(ReadOf(r).rev_seq)) =>
                /\ results[r + 1] = r
                /\ r \in DOMAIN clusters
                /\ \A h \in DOMAIN buckets : r \notin Range(buckets[h])
                /\ (r = Len(processed) - 1 /\ ret.op = "process_read")
                      => ret.id = ReadOf(r).read_id

\* the same read without minimizers processed first and last, with an indexed
\* leader in between: the last one still opens its own cluster
C10_Witness ==
    /\ ~finalized
    /\ Len(processed) = MaxReads
    /\ SameSeqs(ReadOf(0), ReadOf(MaxReads - 1))
    /\ YieldsNoMinimizer(ReadOf(0).fwd_seq)
    /\ YieldsNoMinimizer(ReadOf(0).rev_seq)
    /\ ReadOf(0).fwd_seq # <<>>
    /\ DOMAIN buckets # {}
    /\ results[MaxReads] = MaxReads - 1

\* C11 (Self-exemplarity): after finalize, for every processed read whose
\* cluster has member count 1, get_cluster_id of that read's id returns that
\* same id; the cluster of a read after finalize is the one whose best member
\* is the read's assignment entry.
C11_SelfExemplar ==
    finalized =>
        \A r \in Processed :
            LET id == ReadOf(r).read_id
            IN  \A c \in DOMAIN clusters :
                   (/\ r + 1 <= Len(results)
                    /\ clusters[c].best_read_idx = results[r + 1]
                    /\ clusters[c].count = 1) =>
                       /\ get_cluster_id(id) = id
                       /\ (ret.op = "get_cluster_id" /\ ret.arg = id) => ret.id = id

\* after finalize, a cluster of one read beside a cluster of two, and the
\* single read asked for and answered with its own id
C11_Witness ==
    /\ finalized
    /\ \E c \in DOMAIN clusters, d \in DOMAIN clusters :
          /\ clusters[c].count = 1
          /\ clusters[d].count = 2
          /\ c > 0
          /\ results[c + 1] = c
          /\ ret.op = "get_cluster_id"
          /\ ret.arg = get_id(index_to_id, c)
          /\ ret.id = ret.arg

\* C13 (Lookup pass-through): a get_cluster_id call with an id that was never
\* passed to process_read returns the queried id itself and leaves the
\* registry, the assignment table and the cluster stats unchanged.
C13_PassThrough ==
    [][(/\ ret'.op = "get_cluster_id"
        /\ \A r \in Processed : ReadOf(r).read_id # ret'.arg) =>
           /\ ret'.id = ret'.arg
           /\ ret'.arg \notin DOMAIN id_to_index'
           /\ UNCHANGED <<id_to_index, index_to_id, results, clusters>>]_vars

\* an unknown id asked for after reads were processed and finalized, answered
\* with itself, the registry holding the processed ids only
C13_Witness ==
    /\ finalized
    /\ Len(processed) = MaxReads
    /\ ret.op = "get_cluster_id"
    /\ ret.arg = UnknownId
    /\ ret.id = UnknownId
    /\ DOMAIN id_to_index = {ReadOf(r).read_id : r \in Processed}

-----------------------------------------------------------------------------
(* Properties of the similarity functions (specification SpecPure) *)

IsSim == p_in.kind = "check_similarity" /\ p_out.done

IsPair == p_in.kind = "reads_are_similar" /\ p_out.done

\* C6 as claimed: similarity of any sequence, and of any read pair, against
\* itself is true for every max_offset >= 0 and max_error_frac >= 0.
C6_Reflexive_AsClaimed ==
    /\ (IsSim /\ p_in.seq1 = p_in.seq2) => p_out.v
    /\ (IsPair /\ p_in.exemplar = ExemplarOf(p_in.rp)) => p_out.v

\* C6 (Reflexivity), amended: similarity of a non-empty sequence against
\* itself, and of a read pair with two non-empty sequences against its own
\* exemplar, is true for every max_offset >= 0 and max_error_frac >= 0; an
\* empty sequence is similar to nothing, itself included.
C6_Reflexive ==
    /\ (IsSim /\ p_in.seq1 = p_in.seq2) => (p_out.v <=> p_in.seq1 # <<>>)
    /\ (IsPair /\ p_in.exemplar = ExemplarOf(p_in.rp)) =>
          (p_out.v <=> (p_in.rp.fwd_seq # <<>> /\ p_in.rp.rev_seq # <<>>))
    /\ (IsSim /\ (p_in.seq1 = <<>> \/ p_in.seq2 = <<>>)) => ~p_out.v

\* a sequence of full length found similar to itself with no error allowed
C6_Witness ==
    /\ IsSim
    /\ p_in.seq1 = p_in.seq2
    /\ Len(p_in.seq1) = MaxSeqLen
    /\ p_in.max_error_frac.num = 0
    /\ p_in.max_offset = MaxOffset
    /\ p_out.v

\* rp and exemplar with their roles exchanged
SwappedRoles ==
    [rp |-> [p_in.rp EXCEPT !.fwd_seq = p_in.exemplar.fwd_seq,
                            !.rev_seq = p_in.exemplar.rev_seq],
     exemplar |-> ExemplarOf(p_in.rp)]

\* C7 (Symmetry): check_similarity(s1, s2) = check_similarity(s2, s1) for
\* sequences of any lengths, and reads_are_similar gives the same value with
\* the incoming read and the stored exemplar exchanged.
C7_Symmetric ==
    /\ IsSim => p_out.v = check_similarity(p_in.seq2, p_in.seq1, p_in.max_offset,
                                           p_in.max_error_frac)
    /\ IsPair => p_out.v = reads_are_similar(SwappedRoles.rp, SwappedRoles.exemplar,
                                             p_in.params)

\* two sequences of different lengths that are similar only with seq2 shifted
C7_Witness ==
    /\ IsSim
    /\ p_out.v
    /\ Len(p_in.seq1) # Len(p_in.seq2)
    /\ \A d \in 0..p_in.max_offset :
          ~check_one_way(p_in.seq1, p_in.seq2, d, p_in.max_error_frac)

\* s ~ t under the parameters of the call
Sim(s, t) == check_similarity(s, t, p_in.params.max_offset, p_in.params.max_error_frac)

\* C8 (Tolerant orientation): reads_are_similar(A, E) is true exactly when the
\* standard or the swapped orientation matches; a pair (X, Y) is similar to its
\* mate-swapped copy (Y, X) whenever X ~ X and Y ~ Y.
C8_TolerantOrientation ==
    IsPair =>
        LET a == p_in.rp
            e == p_in.exemplar
        IN  /\ p_out.v <=> \/ Sim(a.fwd_seq, e.fwd_seq) /\ Sim(a.rev_seq, e.rev_seq)
                           \/ Sim(a.fwd_seq, e.rev_seq) /\ Sim(a.rev_seq, e.fwd_seq)
            /\ (/\ e.fwd_seq = a.rev_seq
                /\ e.rev_seq = a.fwd_seq
                /\ Sim(a.fwd_seq, a.fwd_seq)
                /\ Sim(a.rev_seq, a.rev_seq)) => p_out.v

\* a pair and its mate-swapped copy: the standard orientation fails, the
\* swapped one matches
C8_Witness ==
    /\ IsPair
    /\ p_out.v
    /\ p_in.exemplar.fwd_seq = p_in.rp.rev_seq
    /\ p_in.exemplar.rev_seq = p_in.rp.fwd_seq
    /\ ~Sim(p_in.rp.fwd_seq, p_in.exemplar.fwd_seq)

\* e1 < e2 for two error fractions
FracLess(e1, e2) == e1.num * e2.den < e2.num * e1.den

\* C12 (Monotonicity in the error fraction): two sequences, and two read
\* pairs, that are similar at max_error_frac e1 are similar at every e2 > e1,
\* for every max_offset.
C12_MonotoneFrac ==
    /\ (IsSim /\ p_out.v) =>
          \A e2 \in Fracs :
             FracLess(p_in.max_error_frac, e2) =>
                check_similarity(p_in.seq1, p_in.seq2, p_in.max_offset, e2)
    /\ (IsPair /\ p_out.v) =>
          \A e2 \in Fracs :
             FracLess(p_in.params.max_error_frac, e2) =>
                reads_are_similar(p_in.rp, p_in.exemplar,
                                  [p_in.params EXCEPT !.max_error_frac = e2])

\* two read pairs that differ in one base, similar at 1/2 (a budget of one
\* error in two bases) and still at the larger fractions
C12_Witness ==
    /\ IsPair
    /\ p_out.v
    /\ p_in.rp.fwd_seq # p_in.exemplar.fwd_seq
    /\ p_in.params.max_error_frac = [num |-> 1, den |-> 2]
    /\ ~reads_are_similar(p_in.rp, p_in.exemplar,
                          [p_in.params EXCEPT !.max_error_frac = [num |-> 1, den |-> 4]])

\* with the first d bytes of a skipped, the overlap of a and b has at least one
\* position and d plus its mismatching positions stay within floor(frac * L)
FitsAt(a, b, d, frac) ==
    LET L == Min2(Len(a) - d, Len(b))
    IN  /\ L >= 1
        /\ d + Cardinality({i \in 1..L : a[d + i] # b[i]}) <= (frac.num * L) \div frac.den

\* C21 (Reference for check_similarity): check_similarity(s1, s2, max_offset,
\* frac) is true exactly when some offset d in 0..max_offset and some direction
\* (s1 skipped, or for d > 0 s2 skipped) has an overlap of length L >= 1 with
\* d + mismatches <= floor(frac * L); so neither the early exit nor the skip of
\* an offset above the budget changes the result, and an empty overlap is
\* never similar.
C21_SimilarityReference ==
    IsSim =>
        (p_out.v <=>
            \E d \in 0..p_in.max_offset :
                \/ FitsAt(p_in.seq1, p_in.seq2, d, p_in.max_error_frac)
                \/ d > 0 /\ FitsAt(p_in.seq2, p_in.seq1, d, p_in.max_error_frac))

\* two sequences with two mismatches at offset 0, found similar with the first
\* byte of seq2 skipped: the offset uses up the budget of one error
C21_Witness ==
    /\ IsSim
    /\ p_out.v
    /\ p_in.max_error_frac = [num |-> 1, den |-> 2]
    /\ Len(p_in.seq1) = 2
    /\ Len(p_in.seq2) = 3
    /\ ~FitsAt(p_in.seq1, p_in.seq2, 0, p_in.max_error_frac)
    /\ \A d \in 1..p_in.max_offset : ~FitsAt(p_in.seq1, p_in.seq2, d, p_in.max_error_frac)
    /\ FitsAt(p_in.seq2, p_in.seq1, 1, p_in.max_error_frac)

IsMinimizers == p_in.kind = "extract_minimizers" /\ p_out.done

\* the 2-bit code of a valid base
BaseCode(b) ==
    CASE b \in {"A", "a"} -> 0
      [] b \in {"C", "c"} -> 1
      [] b \in {"G", "g"} -> 2
      [] b \in {"T", "t"} -> 3

\* the k-mers (0-based start positions) of k consecutive valid bases lying
\* wholly inside window i of the sequence
KmersOfWindow(seq, i, k, w) ==
    {p \in (i * w)..(Min2((i + 1) * w, Len(seq)) - k) :
        \A t \in 1..k : seq[p + t] \in ValidBases}

\* the 2-bit packed value of the k-mer starting at p, as a 64-bit number: the
\* codes of its bases, the first one the most significant
PackedValue(seq, p, k) ==
    LET code(t) == IF t > 32 - k THEN BaseCode(seq[p + t - (32 - k)]) ELSE 0
    IN  [j \in 1..4 |->
            code(8 * j - 7) * 16384 + code(8 * j - 6) * 4096 + code(8 * j - 5) * 1024
            + code(8 * j - 4) * 256 + code(8 * j - 3) * 64 + code(8 * j - 2) * 16
            + code(8 * j - 1) * 4 + code(8 * j)]

\* the reference: for each of the first num_windows windows that holds a
\* k-mer, in window order, the smallest packed value of its k-mers
ReferenceMinimizers(seq, params) ==
    LET k == params.kmer_len
        w == params.window_len
        holding == {i \in 0..(params.num_windows - 1) : KmersOfWindow(seq, i, k, w) # {}}
        min(i) == LET vals == {PackedValue(seq, p, k) : p \in KmersOfWindow(seq, i, k, w)}
                  IN  CHOOSE x \in vals : \A y \in vals : ~U64Less(y, x)
    IN  [n \in 1..Cardinality(holding) |->
            min(CHOOSE i \in holding : Cardinality({j \in holding : j < i}) = n - 1)]

\* C23 (Reference for extract_minimizers): for every sequence and every
\* configuration with k <= 32 and k <= w, extract_minimizers returns, in
\* window order, one hash for each of the first num_windows adjacent windows
\* that holds a k-mer of k consecutive valid bases wholly inside it, the
\* smallest 2-bit packed value of those k-mers, and nothing for the other
\* windows (nothing at all for a sequence shorter than k).
C23_MinimizerReference ==
    IsMinimizers => p_out.v = ReferenceMinimizers(p_in.seq, p_in.params)

-----------------------------------------------------------------------------
(* Text: lines, fields and numbers, character by character *)

\* the printable ASCII characters, from byte 32 to byte 126 (byte 96, which a
\* string constant cannot hold, is written "backtick")
Printable ==
    << " ", "!", "\"", "#", "$", "%", "&", "'", "(", ")", "*", "+",
       ",", "-", ".", "/", "0", "1", "2", "3", "4", "5", "6", "7",
       "8", "9", ":", ";", "<", "=", ">", "?", "@", "A", "B", "C",
       "D", "E", "F", "G", "H", "I", "J", "K", "L", "M", "N", "O",
       "P", "Q", "R", "S", "T", "U", "V", "W", "X", "Y", "Z", "[",
       "\\", "]", "^", "_", "backtick", "a", "b", "c", "d", "e", "f", "g",
       "h", "i", "j", "k", "l", "m", "n", "o", "p", "q", "r", "s",
       "t", "u", "v", "w", "x", "y", "z", "{", "|", "}", "~" >>

\* the byte of a character
Ord(c) ==
    IF c = "\t" THEN 9
    ELSE IF c = "\n" THEN 10
    ELSE IF c = "\r" THEN 13
    ELSE 31 + (CHOOSE i \in 1..Len(Printable) : Printable[i] = c)

\* str::as_bytes
Bytes(s) == [i \in 1..Len(s) |-> Ord(s[i])]

\* char::is_whitespace, for the ASCII characters
is_whitespace(c) == c \in {" ", "\t", "\n", "\r"}

RECURSIVE trim_end(_)
\* str::trim_end
trim_end(s) ==
    IF Len(s) > 0 /\ is_whitespace(s[Len(s)])
    THEN trim_end(SubSeq(s, 1, Len(s) - 1))
    ELSE s

RECURSIVE trim_start(_)
\* str::trim_start
trim_start(s) ==
    IF Len(s) > 0 /\ is_whitespace(s[1]) THEN trim_start(Tail(s)) ELSE s

\* str::trim
trim(s) == trim_start(trim_end(s))

RECURSIVE SplitLoop(_, _, _, _, _)
\* the fields of s from character i on; cur is the field being read and acc
\* the fields before it
SplitLoop(s, sep, i, cur, acc) ==
    IF i > Len(s) THEN Append(acc, cur)
    ELSE IF s[i] = sep THEN SplitLoop(s, sep, i + 1, <<>>, Append(acc, cur))
    ELSE SplitLoop(s, sep, i + 1, Append(cur, s[i]), acc)

\* str::split(sep).collect(): one field more than there are separators
split(s, sep) == SplitLoop(s, sep, 1, <<>>, <<>>)

RECURSIVE join(_, _)
\* [String]::join(sep)
join(fields, sep) ==
    IF Len(fields) = 0 THEN <<>>
    ELSE IF Len(fields) = 1 THEN fields[1]
    ELSE fields[1] \o <<sep>> \o join(Tail(fields), sep)

\* the item BufRead::lines yields for a line: the terminator "\n" is gone
\* already, a "\r" before it is removed as well
lines_item(l) ==
    IF Len(l) > 0 /\ l[Len(l)] = "\r" THEN SubSeq(l, 1, Len(l) - 1) ELSE l

IsDigit(c) == Ord(c) >= 48 /\ Ord(c) <= 57

RECURSIVE DigitsValue(_, _)
\* the value of a string of decimal digits, after the value acc of the digits before it
DigitsValue(s, acc) ==
    IF Len(s) = 0 THEN acc ELSE DigitsValue(Tail(s), 10 * acc + (Ord(s[1]) - 48))

\* str::parse::<u64>: an optional "+" and one or more decimal digits (the
\* numbers of the model stay far below 2^64)
parse_u64(s) ==
    LET digits == IF Len(s) > 0 /\ s[1] = "+" THEN Tail(s) ELSE s
    IN  IF Len(digits) > 0 /\ \A i \in 1..Len(digits) : IsDigit(digits[i])
        THEN [ok |-> TRUE, v |-> DigitsValue(digits, 0)]
        ELSE [ok |-> FALSE, v |-> 0]

RECURSIVE to_string(_)
\* u64::to_string: the decimal digits, without a leading zero
to_string(n) ==
    IF n < 10 THEN <<Printable[n + 17]>>
    ELSE Append(to_string(n \div 10), Printable[(n % 10) + 17])

RECURSIVE StrLess(_, _)
\* String::cmp(a, b) = Less: the byte-wise lexicographic order
StrLess(a, b) ==
    IF Len(b) = 0 THEN FALSE
    ELSE IF Len(a) = 0 THEN TRUE
    ELSE IF Ord(a[1]) < Ord(b[1]) THEN TRUE
    ELSE IF Ord(a[1]) > Ord(b[1]) THEN FALSE
    ELSE StrLess(Tail(a), Tail(b))

-----------------------------------------------------------------------------
(* dedup_interleaved_fastq: the FASTQ driver *)

\* pairs of records in an input file
MaxPairs == 3

ExitOk == [code |-> 0, err |-> [kind |-> "none"]]

ExitErr(e) == [code |-> 1, err |-> e]

\* read_fastq_record with the reader at line pos of the input: a record and the
\* position after it, the end of the file, or an error
read_fastq_record(input, pos) ==
    IF pos > Len(input) THEN [kind |-> "eof", pos |-> pos]
    ELSE LET header == trim_end(input[pos])
         IN  IF Len(header) = 0 \/ header[1] # "@"
             THEN [kind |-> "err", err |-> [kind |-> "Invalid FASTQ header", line |-> pos]]
             ELSE IF pos + 1 > Len(input)
             THEN [kind |-> "err",
                   err |-> [kind |-> "Incomplete FASTQ record: missing sequence", line |-> pos + 1]]
             ELSE IF pos + 2 > Len(input)
             THEN [kind |-> "err",
                   err |-> [kind |-> "Incomplete FASTQ record: missing plus line", line |-> pos + 2]]
             ELSE IF trim_end(input[pos + 2]) # <<"+">>
             THEN [kind |-> "err", err |-> [kind |-> "Invalid FASTQ separator", line |-> pos + 2]]
             ELSE IF pos + 3 > Len(input)
             THEN [kind |-> "err",
                   err |-> [kind |-> "Incomplete FASTQ record: missing quality", line |-> pos + 3]]
             ELSE [kind |-> "record",
                   record |-> [header |-> header,
                               sequence |-> trim_end(input[pos + 1]),
                               plus |-> trim_end(input[pos + 2]),
                               quality |-> trim_end(input[pos + 3])],
                   pos |-> pos + 4]

\* FastqPairIterator::next with the reader at line pos: a pair and the position
\* after it, the end of the iteration (with a warning when a record is left
\* over), or an error
FastqPairIterator_next(input, pos) ==
    LET r1 == read_fastq_record(input, pos)
    IN  IF r1.kind = "eof" THEN [kind |-> "none", warning |-> FALSE]
        ELSE IF r1.kind = "err" THEN r1
        ELSE LET r2 == read_fastq_record(input, r1.pos)
             IN  IF r2.kind = "eof" THEN [kind |-> "none", warning |-> TRUE]
                 ELSE IF r2.kind = "err" THEN r2
                 ELSE [kind |-> "pair", r1 |-> r1.record, r2 |-> r2.record, pos |-> r2.pos]

\* FastqRecord::write_to: four writeln calls
write_to(out, record) ==
    out \o <<record.header, record.sequence, record.plus, record.quality>>

\* a mutant of Pass2Write: every pair is written
Pass2Write_all(out, idx, r1, r2, exemplar_indices) ==
    write_to(write_to(out, r1), r2)

\* the body of the pass-2 loop: the pair with ordinal idx is written when idx
\* is an exemplar index
Pass2Write(out, idx, r1, r2, exemplar_indices) ==
    IF idx \in exemplar_indices THEN write_to(write_to(out, r1), r2) ELSE out

\* DedupContext::process_read_by_index: process_read for the read addressed by
\* its ordinal idx, which is its read index (no id is interned)
process_read_by_index(idx, fwd_seq, rev_seq, fwd_qual, rev_qual) ==
    LET rp == [read_id |-> idx, fwd_seq |-> fwd_seq, rev_seq |-> rev_seq,
               fwd_qual |-> Bytes(fwd_qual), rev_qual |-> Bytes(rev_qual)]
        score    == Score(rp)
        all_mins == AllMins(rp)
        hit      == Probe(rp)
        cluster_leader_idx == IF hit.found THEN hit.idx ELSE idx
    IN  /\ IF hit.found
           THEN /\ clusters' = JoinCluster(clusters, hit.idx, idx, score)
                /\ UNCHANGED <<exemplar_store, buckets>>
           ELSE /\ clusters' = NewCluster(clusters, idx, score)
                /\ exemplar_store' = StoreExemplar(exemplar_store, idx, rp)
                /\ buckets' = PushBuckets(buckets, all_mins, 1, idx)
        /\ results' = RecordResult(results, idx, cluster_leader_idx)
        /\ ret' = [op |-> "process_read_by_index", arg |-> "", id |-> "",
                   pair |-> <<idx, cluster_leader_idx>>]
        /\ UNCHANGED <<id_to_index, index_to_id>>

\* DedupContext::get_exemplar_indices: the best_read_idx of every cluster
get_exemplar_indices == {clusters[c].best_read_idx : c \in DOMAIN clusters}

\* the command lines of the driver: the flags --max-offset, --max-error-frac,
\* --kmer-len, --window-len, --num-windows; one with kmer_len <= window_len,
\* one with kmer_len > window_len, one with kmer_len > 32
FastqCli ==
    { [max_offset |-> 1, max_error_frac |-> [num |-> 1, den |-> 2],
       kmer_len |-> 2, window_len |-> 2, num_windows |-> 2],
      [max_offset |-> 1, max_error_frac |-> [num |-> 1, den |-> 2],
       kmer_len |-> 3, window_len |-> 2, num_windows |-> 2],
      [max_offset |-> 1, max_error_frac |-> [num |-> 1, den |-> 2],
       kmer_len |-> 33, window_len |-> 40, num_windows |-> 2] }

\* FASTQ records, each as its four lines: AA with Phred 0; AA with Phred 2;
\* CC with Phred 0; AA with Phred 0 and every line ending in a carriage return;
\* a record with the separator "+e"; a record with a header without "@"
RecA0 == <<<<"@", "a">>, <<"A", "A">>, <<"+">>, <<"!", "!">>>>
RecA2 == <<<<"@", "b">>, <<"A", "A">>, <<"+">>, <<"#", "#">>>>
RecC0 == <<<<"@", "c">>, <<"C", "C">>, <<"+">>, <<"!", "!">>>>
RecCr == <<<<"@", "d", "\r">>, <<"A", "A", "\r">>, <<"+", "\r">>, <<"!", "!", "\r">>>>
RecBadPlus == <<<<"@", "e">>, <<"A", "A">>, <<"+", "e">>, <<"!", "!">>>>
RecBadHeader == <<<<"f">>, <<"A", "A">>, <<"+">>, <<"!", "!">>>>

\* the pairs an input file is made of
FastqPairPool ==
    { RecA0 \o RecA0, RecA2 \o RecA2, RecC0 \o RecA0, RecCr \o RecCr,
      RecA0 \o RecBadPlus, RecBadHeader \o RecA0 }

\* what follows the last pair: nothing, a record without a mate, or the first
\* two lines of a record
FastqTails == { <<>>, RecC0, SubSeq(RecC0, 1, 2) }

RECURSIVE Flatten(_)
Flatten(ss) == IF Len(ss) = 0 THEN <<>> ELSE ss[1] \o Flatten(Tail(ss))

FastqInputs ==
    { Flatten(ps) \o t : ps \in SeqsUpTo(FastqPairPool, MaxPairs), t \in FastqTails }

\* main up to the first pass: the parameters are built from the flags as
\* given, and the context is created
InitFastq ==
    /\ \E cli \in FastqCli, input \in FastqInputs :
          /\ args = [tool |-> "dedup_interleaved_fastq", input |-> input,
                     max_offset |-> cli.max_offset,
                     max_error_frac |-> cli.max_error_frac,
                     kmer_len |-> cli.kmer_len, window_len |-> cli.window_len,
                     num_windows |-> cli.num_windows]
          /\ dedup_params = [max_offset |-> cli.max_offset,
                             max_error_frac |-> cli.max_error_frac]
          /\ minimizer_params = [kmer_len |-> cli.kmer_len,
                                 window_len |-> cli.window_len,
                                 num_windows |-> cli.num_windows]
    /\ id_to_index = <<>>
    /\ index_to_id = <<>>
    /\ buckets = <<>>
    /\ exemplar_store = <<>>
    /\ results = <<>>
    /\ clusters = <<>>
    /\ finalized = FALSE
    /\ ret = [op |-> "new", arg |-> "", id |-> "", pair |-> <<0, 0>>]
    /\ processed = <<>>
    /\ p_in = NoCall
    /\ p_out = NoResult
    /\ pc = "pass1"
    /\ locals = [reader |-> 1, idx |-> 0, pair_count |-> 0,
                 exemplar_indices |-> {}, written |-> 0]
    /\ files = <<>>
    /\ exit_status = Running

\* one iteration of the pass-1 loop over a pair
FastqPass1Pair ==
    /\ pc = "pass1"
    /\ LET next == FastqPairIterator_next(args.input, locals.reader)
       IN  /\ next.kind = "pair"
           /\ process_read_by_index(locals.idx, next.r1.sequence, next.r2.sequence,
                                    next.r1.quality, next.r2.quality)
           /\ locals' = [locals EXCEPT !.reader = next.pos,
                                       !.idx = locals.idx + 1,
                                       !.pair_count = locals.idx + 1]
    /\ UNCHANGED <<dedup_params, minimizer_params, finalized, processed, p_in, p_out,
                   args, pc, files, exit_status>>

\* the pass-1 loop meets a malformed record: "pair_result?" returns the error
FastqPass1Error ==
    /\ pc = "pass1"
    /\ LET next == FastqPairIterator_next(args.input, locals.reader)
       IN  /\ next.kind = "err"
           /\ exit_status' = ExitErr(next.err)
    /\ pc' = "exit"
    /\ UNCHANGED <<engine_vars, p_in, p_out, args, locals, files>>

\* the end of pass 1: finalize, stats, get_exemplar_indices, and the second
\* iterator and the output file are opened
FastqFinalize ==
    /\ pc = "pass1"
    /\ FastqPairIterator_next(args.input, locals.reader).kind = "none"
    /\ finalize
    /\ ret' = [op |-> "stats", arg |-> "", id |-> "", pair |-> stats]
    /\ locals' = [locals EXCEPT !.reader = 1, !.idx = 0,
                                !.exemplar_indices = get_exemplar_indices]
    /\ files' = [name \in {"output"} |-> <<>>]
    /\ pc' = "pass2"
    /\ UNCHANGED <<dedup_params, minimizer_params, id_to_index, index_to_id, clusters,
                   processed, p_in, p_out, args, exit_status>>

\* one iteration of the pass-2 loop over a pair
FastqPass2Pair ==
    /\ pc = "pass2"
    /\ LET next == FastqPairIterator_next(args.input, locals.reader)
       IN  /\ next.kind # "none"
           /\ IF next.kind = "err"
              THEN /\ exit_status' = ExitErr(next.err)
                   /\ pc' = "exit"
                   /\ UNCHANGED <<locals, files>>
              ELSE /\ files' = [files EXCEPT !["output"] =
                                   Pass2Write(files["output"], locals.idx, next.r1, next.r2,
                                              locals.exemplar_indices)]
                   /\ locals' = [locals EXCEPT
                                    !.reader = next.pos,
                                    !.idx = locals.idx + 1,
                                    !.written = IF locals.idx \in locals.exemplar_indices
                                                THEN locals.written + 1
                                                ELSE locals.written]
                   /\ UNCHANGED <<pc, exit_status>>
    /\ UNCHANGED <<engine_vars, p_in, p_out, args>>

\* the end of pass 2: main returns Ok and the writer is dropped
FastqDone ==
    /\ pc = "pass2"
    /\ FastqPairIterator_next(args.input, locals.reader).kind = "none"
    /\ pc' = "exit"
    /\ exit_status' = ExitOk
    /\ UNCHANGED <<engine_vars, p_in, p_out, args, locals, files>>

NextFastq ==
    FastqPass1Pair \/ FastqPass1Error \/ FastqFinalize \/ FastqPass2Pair \/ FastqDone

SpecFastq == InitFastq /\ [][NextFastq]_vars

-----------------------------------------------------------------------------
(* Properties of the FASTQ driver (specification SpecFastq) *)

\* the flags give a k-mer length above 32 or above the window length
BadKmerFlags == args.kmer_len > MAX_KMER_LEN \/ args.kmer_len > args.window_len

\* C14: MinimizerParams::new returns an error when kmer_len > 32 or
\* kmer_len > window_len, and the FASTQ driver run with such flags exits with a
\* non-zero code before processing any read, so that the engine never works
\* with k > 32 or k > window_len.
C14_ConfigRejected ==
    /\ \A k \in 0..(MAX_KMER_LEN + 2), w \in 0..(MAX_KMER_LEN + 2) :
          (k > MAX_KMER_LEN \/ k > w) => ~MinimizerParams_new(k, w, 1).ok
    /\ BadKmerFlags =>
          /\ Len(results) = 0
          /\ locals.pair_count = 0
          /\ pc # "pass2"
          /\ pc = "exit" => exit_status.code # 0
    /\ Len(results) > 0 =>
          /\ minimizer_params.kmer_len <= MAX_KMER_LEN
          /\ minimizer_params.kmer_len <= minimizer_params.window_len

\* the driver ended with exit code 0
FastqOk == pc = "exit" /\ exit_status.code = 0

\* the pairs of the input: pair p is made of the records 2p and 2p+1, record n
\* of the lines 4n+1..4n+4
NumInputPairs == (Len(args.input) \div 4) \div 2

PairLines(p) == SubSeq(args.input, 8 * p + 1, 8 * p + 8)

\* the best members of the clusters
BestMembers == {clusters[c].best_read_idx : c \in DOMAIN clusters}

RECURSIVE PairsOut(_, _)
\* the lines of the pairs p, p+1, ... that are best members, in input order;
\* as they are in the input, or each without its trailing whitespace
PairsOut(p, trimmed) ==
    IF p >= NumInputPairs THEN <<>>
    ELSE (IF p \in BestMembers
          THEN IF trimmed THEN [i \in 1..8 |-> trim_end(PairLines(p)[i])]
               ELSE PairLines(p)
          ELSE <<>>) \o PairsOut(p + 1, trimmed)

\* C15 as claimed: the pairs are addressed by their ordinals; pass 2 writes
\* both records of exactly the complete pairs whose ordinal is the best member
\* of a cluster, unchanged and in input order, never the record without a
\* mate; as many pairs are written as the engine reports clusters.
C15_FastqOutput_AsClaimed ==
    FastqOk =>
        /\ Len(results) = NumInputPairs
        /\ files["output"] = PairsOut(0, FALSE)
        /\ locals.written = stats[2]
        /\ Len(files["output"]) = 8 * stats[2]

\* C15, amended: on a run that succeeds, the pairs are addressed by their
\* ordinals; pass 2 writes both records of exactly the complete pairs whose
\* ordinal is the best member of a cluster, in input order, each of their lines
\* without its trailing whitespace (a carriage return included) and otherwise
\* unchanged, never the record without a mate; as many pairs are written as
\* the engine reports clusters.
C15_FastqOutput ==
    FastqOk =>
        /\ Len(results) = NumInputPairs
        /\ files["output"] = PairsOut(0, TRUE)
        /\ locals.written = stats[2]
        /\ Len(files["output"]) = 8 * stats[2]

\* a run that succeeded on MaxPairs pairs and a record without a mate: two
\* clusters, a pair that is not written, and a pair written whose input lines
\* end in a carriage return
C15_Witness ==
    /\ FastqOk
    /\ NumInputPairs = MaxPairs
    /\ Len(args.input) = 8 * MaxPairs + 4
    /\ Cardinality(DOMAIN clusters) = 2
    /\ \E p \in 0..(NumInputPairs - 1) : p \notin BestMembers
    /\ Len(files["output"]) = 16
    /\ \E p \in BestMembers : PairLines(p) = RecCr \o RecCr

-----------------------------------------------------------------------------
(* similarity_duplicate_marking: the TSV driver *)

\* data rows in an input table
MaxRows == 3

\* the column names
COL_seq_id ==
    <<"s", "e", "q", "_", "i", "d">>
COL_query_seq ==
    <<"q", "u", "e", "r", "y", "_", "s", "e", "q">>
COL_query_seq_rev ==
    <<"q", "u", "e", "r", "y", "_", "s", "e", "q", "_", "r", "e", "v">>
COL_query_qual ==
    <<"q", "u", "e", "r", "y", "_", "q", "u", "a", "l">>
COL_query_qual_rev ==
    <<"q", "u", "e", "r", "y", "_", "q", "u", "a", "l", "_", "r", "e", "v">>
COL_prim_align_dup_exemplar ==
    <<"p", "r", "i", "m", "_", "a", "l", "i", "g", "n", "_", "d", "u", "p", "_", "e",
      "x", "e", "m", "p", "l", "a", "r">>
COL_sim_dup_exemplar ==
    <<"s", "i", "m", "_", "d", "u", "p", "_", "e", "x", "e", "m", "p", "l", "a", "r">>
COL_note ==
    <<"n", "o", "t", "e">>

\* the text "NA"
NA == <<"N", "A">>

\* find_column: the 0-based position of the first header field equal to name
find_column(header_fields, name) ==
    IF \E i \in 1..Len(header_fields) : header_fields[i] = name
    THEN [ok |-> TRUE,
          idx |-> (CHOOSE i \in 1..Len(header_fields) :
                      /\ header_fields[i] = name
                      /\ \A j \in 1..(i - 1) : header_fields[j] # name) - 1]
    ELSE [ok |-> FALSE, err |-> [kind |-> "Missing required column", name |-> name]]

\* the required columns, in the order in which main looks them up
RequiredColumns ==
    << COL_seq_id, COL_query_seq, COL_query_seq_rev, COL_query_qual,
       COL_query_qual_rev, COL_prim_align_dup_exemplar >>

Max2(a, b) == IF a >= b THEN a ELSE b

\* the largest of the six column indices
MaxIdx(found) ==
    Max2(found[1].idx, Max2(found[2].idx, Max2(found[3].idx,
         Max2(found[4].idx, Max2(found[5].idx, found[6].idx)))))

\* the header line read and the columns looked up: the locals of main, or the
\* first error
read_header_columns(input) ==
    IF Len(input) = 0 THEN [ok |-> FALSE, err |-> [kind |-> "Empty input file"]]
    ELSE LET header == lines_item(input[1])
             header_fields == split(header, "\t")
             found == [k \in 1..6 |-> find_column(header_fields, RequiredColumns[k])]
         IN  IF \E k \in 1..6 : ~found[k].ok
             THEN [ok |-> FALSE,
                   err |-> found[CHOOSE k \in 1..6 :
                                    ~found[k].ok /\ \A j \in 1..(k - 1) : found[j].ok].err]
             ELSE [ok |-> TRUE,
                   locals |-> [header |-> header,
                               seq_id_idx |-> found[1].idx,
                               query_seq_idx |-> found[2].idx,
                               query_seq_rev_idx |-> found[3].idx,
                               query_qual_idx |-> found[4].idx,
                               query_qual_rev_idx |-> found[5].idx,
                               prim_align_idx |-> found[6].idx,
                               min_fields |-> MaxIdx(found) + 1,
                               n_reads |-> 0,
                               alignment_unique_count |-> 0,
                               n_prim_align_dups |-> 0,
                               n_sim_dups |-> 0,
                               reader |-> 2]]

\* the ReadPair main builds from the fields of an alignment-unique row
RowReadPair(fields) ==
    [read_id |-> fields[locals.seq_id_idx + 1],
     fwd_seq |-> fields[locals.query_seq_idx + 1],
     rev_seq |-> fields[locals.query_seq_rev_idx + 1],
     fwd_qual |-> Bytes(fields[locals.query_qual_idx + 1]),
     rev_qual |-> Bytes(fields[locals.query_qual_rev_idx + 1])]

\* the line pass 2 writes for an input line
Pass2Line(line, fields) ==
    LET seq_id == fields[locals.seq_id_idx + 1]
        prim_align_exemplar == fields[locals.prim_align_idx + 1]
    IN  IF seq_id # prim_align_exemplar
        THEN trim_end(line) \o <<"\t">> \o NA
        ELSE trim_end(line) \o <<"\t">> \o get_cluster_id(seq_id)

\* DedupParams::default and MinimizerParams::default
DefaultDedupParams == [max_offset |-> 1, max_error_frac |-> [num |-> 1, den |-> 100]]

DefaultMinimizerParams == [kmer_len |-> 15, window_len |-> 25, num_windows |-> 4]

\* a string of n characters c
Rep(c, n) == [i \in 1..n |-> c]

\* a row of a table with the columns of header_keys, from the values of rec
TsvRow(header_keys, rec) ==
    join([i \in 1..Len(header_keys) |-> rec[header_keys[i]]], "\t")

\* the values of the rows: two alignment-unique reads with the same sequences
\* (the second with the better quality), an alignment duplicate of the first,
\* and an alignment-unique read with other sequences and an empty note
TsvRecords ==
    { [seq_id |-> <<"s", "1">>, query_seq |-> Rep("A", 15), query_seq_rev |-> Rep("A", 15),
       query_qual |-> Rep("!", 15), query_qual_rev |-> Rep("!", 15),
       prim_align_dup_exemplar |-> <<"s", "1">>, note |-> <<"x">>],
      [seq_id |-> <<"s", "2">>, query_seq |-> Rep("A", 15), query_seq_rev |-> Rep("A", 15),
       query_qual |-> Rep("#", 15), query_qual_rev |-> Rep("#", 15),
       prim_align_dup_exemplar |-> <<"s", "2">>, note |-> <<"x">>],
      [seq_id |-> <<"s", "3">>, query_seq |-> Rep("C", 15), query_seq_rev |-> Rep("A", 15),
       query_qual |-> Rep("!", 15), query_qual_rev |-> Rep("!", 15),
       prim_align_dup_exemplar |-> <<"s", "1">>, note |-> <<"x">>],
      [seq_id |-> <<"s", "4">>, query_seq |-> Rep("C", 15), query_seq_rev |-> Rep("C", 15),
       query_qual |-> Rep("!", 15), query_qual_rev |-> Rep("!", 15),
       prim_align_dup_exemplar |-> <<"s", "4">>, note |-> <<>>] }

\* the column orders of the input tables: the note last, the note first, and a
\* table without the column query_qual_rev
TsvHeaders ==
    { <<"seq_id", "query_seq", "query_seq_rev", "query_qual", "query_qual_rev",
        "prim_align_dup_exemplar", "note">>,
      <<"note", "seq_id", "query_seq", "query_seq_rev", "query_qual", "query_qual_rev",
        "prim_align_dup_exemplar">>,
      <<"seq_id", "query_seq", "query_seq_rev", "query_qual",
        "prim_align_dup_exemplar", "note">> }

\* the name of a column
ColumnName ==
    [seq_id |-> COL_seq_id, query_seq |-> COL_query_seq,
     query_seq_rev |-> COL_query_seq_rev, query_qual |-> COL_query_qual,
     query_qual_rev |-> COL_query_qual_rev,
     prim_align_dup_exemplar |-> COL_prim_align_dup_exemplar, note |-> COL_note]

\* a row with two fields only
ShortRow == <<"s", "5", "\t", "A">>

\* the input tables: the empty file, and a header line followed by rows
TsvInputs ==
    {<<>>} \cup
    UNION { { <<TsvRow(h, ColumnName)>> \o rows :
                rows \in SeqsUpTo({TsvRow(h, rec) : rec \in TsvRecords} \cup {ShortRow},
                                  MaxRows) } :
            h \in TsvHeaders }

\* main up to the reading of the header: the context is created with the
\* default parameters
InitTsv ==
    /\ \E input \in TsvInputs :
          args = [tool |-> "similarity_duplicate_marking", input |-> input]
    /\ dedup_params = DefaultDedupParams
    /\ minimizer_params = DefaultMinimizerParams
    /\ id_to_index = <<>>
    /\ index_to_id = <<>>
    /\ buckets = <<>>
    /\ exemplar_store = <<>>
    /\ results = <<>>
    /\ clusters = <<>>
    /\ finalized = FALSE
    /\ ret = [op |-> "new", arg |-> "", id |-> "", pair |-> <<0, 0>>]
    /\ processed = <<>>
    /\ p_in = NoCall
    /\ p_out = NoResult
    /\ pc = "header"
    /\ locals = [reader |-> 1]
    /\ files = <<>>
    /\ exit_status = Running

\* the header is read and the six columns are found
TsvReadHeader ==
    /\ pc = "header"
    /\ LET r == read_header_columns(args.input)
       IN  /\ r.ok
           /\ locals' = r.locals
    /\ pc' = "pass1"
    /\ UNCHANGED <<engine_vars, p_in, p_out, args, files, exit_status>>

\* the input is empty or a required column is missing
TsvHeaderError ==
    /\ pc = "header"
    /\ LET r == read_header_columns(args.input)
       IN  /\ ~r.ok
           /\ exit_status' = ExitErr(r.err)
    /\ pc' = "exit"
    /\ UNCHANGED <<engine_vars, p_in, p_out, args, locals, files>>

\* one iteration of the pass-1 loop over a row wide enough
TsvPass1Row ==
    /\ pc = "pass1"
    /\ locals.reader <= Len(args.input)
    /\ LET line == lines_item(args.input[locals.reader])
           fields == split(line, "\t")
       IN  /\ Len(fields) >= locals.min_fields
           /\ IF fields[locals.seq_id_idx + 1] # fields[locals.prim_align_idx + 1]
              THEN /\ locals' = [locals EXCEPT !.reader = locals.reader + 1,
                                               !.n_reads = locals.n_reads + 1]
                   /\ UNCHANGED <<id_to_index, index_to_id, buckets, exemplar_store,
                                  results, clusters, ret>>
              ELSE /\ process_read(RowReadPair(fields))
                   /\ locals' = [locals EXCEPT
                                    !.reader = locals.reader + 1,
                                    !.n_reads = locals.n_reads + 1,
                                    !.alignment_unique_count =
                                        locals.alignment_unique_count + 1]
    /\ UNCHANGED <<dedup_params, minimizer_params, finalized, processed, p_in, p_out,
                   args, pc, files, exit_status>>

\* the pass-1 loop meets a row with fewer than min_fields fields
TsvPass1Error ==
    /\ pc = "pass1"
    /\ locals.reader <= Len(args.input)
    /\ LET fields == split(lines_item(args.input[locals.reader]), "\t")
       IN  /\ Len(fields) < locals.min_fields
           /\ exit_status' = ExitErr([kind |-> "Malformed line",
                                      line |-> locals.n_reads + 1,
                                      expected |-> locals.min_fields,
                                      found |-> Len(fields)])
    /\ pc' = "exit"
    /\ UNCHANGED <<engine_vars, p_in, p_out, args, locals, files>>

\* the end of pass 1: stats, finalize, the input is opened again, the output is
\* created, and the header is written with the new column
TsvFinalize ==
    /\ pc = "pass1"
    /\ locals.reader > Len(args.input)
    /\ finalize
    /\ ret' = [op |-> "stats", arg |-> "", id |-> "", pair |-> stats]
    /\ files' = [name \in {"output"} |->
                    <<trim_end(locals.header) \o <<"\t">> \o COL_sim_dup_exemplar>>]
    /\ locals' = [locals EXCEPT !.reader = 2]
    /\ pc' = "pass2"
    /\ UNCHANGED <<dedup_params, minimizer_params, id_to_index, index_to_id, clusters,
                   processed, p_in, p_out, args, exit_status>>

\* one iteration of the pass-2 loop over a row
TsvPass2Row ==
    /\ pc = "pass2"
    /\ locals.reader <= Len(args.input)
    /\ LET line == lines_item(args.input[locals.reader])
           fields == split(line, "\t")
       IN  IF Len(fields) < locals.min_fields
           THEN /\ exit_status' = ExitErr([kind |-> "Malformed line",
                                           line |-> locals.reader - 1,
                                           expected |-> locals.min_fields,
                                           found |-> Len(fields)])
                /\ pc' = "exit"
                /\ UNCHANGED <<locals, files>>
           ELSE LET seq_id == fields[locals.seq_id_idx + 1]
                    dup == seq_id # fields[locals.prim_align_idx + 1]
                IN  /\ files' = [files EXCEPT !["output"] =
                                    Append(files["output"], Pass2Line(line, fields))]
                    /\ locals' = [locals EXCEPT
                                     !.reader = locals.reader + 1,
                                     !.n_prim_align_dups =
                                         IF dup THEN locals.n_prim_align_dups + 1
                                         ELSE locals.n_prim_align_dups,
                                     !.n_sim_dups =
                                         IF ~dup /\ get_cluster_id(seq_id) # seq_id
                                         THEN locals.n_sim_dups + 1
                                         ELSE locals.n_sim_dups]
                    /\ UNCHANGED <<pc, exit_status>>
    /\ UNCHANGED <<engine_vars, p_in, p_out, args>>

\* the end of pass 2: the output is flushed and main returns Ok
TsvDone ==
    /\ pc = "pass2"
    /\ locals.reader > Len(args.input)
    /\ pc' = "exit"
    /\ exit_status' = ExitOk
    /\ UNCHANGED <<engine_vars, p_in, p_out, args, locals, files>>

NextTsv ==
    \/ TsvReadHeader
    \/ TsvHeaderError
    \/ TsvPass1Row
    \/ TsvPass1Error
    \/ TsvFinalize
    \/ TsvPass2Row
    \/ TsvDone

SpecTsv == InitTsv /\ [][NextTsv]_vars

-----------------------------------------------------------------------------
(* Properties of the TSV driver (specification SpecTsv) *)

\* the driver ended with exit code 0
TsvOk == args.tool = "similarity_duplicate_marking" /\ pc = "exit" /\ exit_status.code = 0

\* the fields of input line i
InFields(i) == split(lines_item(args.input[i]), "\t")

\* the 1-based position of a column in the header
ColumnOf(name) == CHOOSE k \in 1..Len(InFields(1)) : InFields(1)[k] = name

\* the rows that are their own alignment exemplar
AlignmentUnique(i) ==
    InFields(i)[ColumnOf(COL_seq_id)] = InFields(i)[ColumnOf(COL_prim_align_dup_exemplar)]

\* C16: the output has one row for every data row of the input, in the same
\* order; each output row is the fields of its input row, unchanged, and one
\* more field after them, which is NA exactly when seq_id differs from
\* prim_align_dup_exemplar and get_cluster_id(seq_id) after finalize otherwise;
\* only the rows with seq_id = prim_align_dup_exemplar are given to the engine.
C16_TsvOutput ==
    TsvOk =>
        /\ Len(files["output"]) = Len(args.input)
        /\ \A i \in 2..Len(args.input) :
              LET in_fields == InFields(i)
                  out_fields == split(files["output"][i], "\t")
                  seq_id == in_fields[ColumnOf(COL_seq_id)]
              IN  /\ Len(out_fields) = Len(in_fields) + 1
                  /\ SubSeq(out_fields, 1, Len(in_fields)) = in_fields
                  /\ (out_fields[Len(out_fields)] = NA) <=> ~AlignmentUnique(i)
                  /\ AlignmentUnique(i) =>
                        out_fields[Len(out_fields)] = get_cluster_id(seq_id)
        /\ DOMAIN id_to_index =
              {InFields(i)[ColumnOf(COL_seq_id)] :
                  i \in {j \in 2..Len(args.input) : AlignmentUnique(j)}}

-----------------------------------------------------------------------------
(* process_vsearch_cluster_output: the projection tool *)

\* clusters in an input file
MaxClusters == 3

\* the columns of the UC format
REC_TYPE == 0
CLUSTER_ID == 1
SIZE == 2
PERCENT_ID == 3
ORIENTATION == 4
CIGAR == 7
SEQ_ID == 8
CLUSTER_REP_ID == 9
UC_FIELD_COUNT == 10

\* format_header: the prefix and "_" go before every name but seq_id
format_header(prefix) ==
    LET columns ==
        << <<"c", "l", "u", "s", "t", "e", "r", "_", "i", "d">>,
           <<"c", "l", "u", "s", "t", "e", "r", "_", "r", "e", "p", "_", "i", "d">>,
           <<"s", "e", "q", "_", "l", "e", "n", "g", "t", "h">>,
           <<"i", "s", "_", "c", "l", "u", "s", "t", "e", "r", "_", "r", "e", "p">>,
           <<"p", "e", "r", "c", "e", "n", "t", "_", "i", "d", "e", "n", "t", "i", "t", "y">>,
           <<"o", "r", "i", "e", "n", "t", "a", "t", "i", "o", "n">>,
           <<"c", "i", "g", "a", "r">>,
           <<"c", "l", "u", "s", "t", "e", "r", "_", "s", "i", "z", "e">> >>
    IN  join(<<COL_seq_id>> \o
             [i \in 1..Len(columns) |->
                 IF prefix = <<>> THEN columns[i] ELSE prefix \o <<"_">> \o columns[i]],
             "\t")

\* HashMap::insert
MapInsert(m, k, v) == [x \in DOMAIN m \cup {k} |-> IF x = k THEN v ELSE m[x]]

\* a mutant of Pass1Line: a record type other than C and S is skipped
Pass1Line_lenient(t, line, line_num) ==
    LET fields == split(line, "\t")
    IN  IF Len(fields) # UC_FIELD_COUNT
        THEN [ok |-> FALSE,
              err |-> [kind |-> "field count", line |-> line_num,
                           expected |-> UC_FIELD_COUNT, found |-> Len(fields)]]
        ELSE LET cluster_id == parse_u64(fields[CLUSTER_ID + 1])
                 cluster_size == parse_u64(fields[SIZE + 1])
             IN  IF fields[REC_TYPE + 1] = <<"C">> /\ cluster_id.ok /\ cluster_size.ok
                 THEN [ok |-> TRUE,
                       cluster_sizes |-> MapInsert(t.cluster_sizes, cluster_id.v, cluster_size.v),
                       cluster_reps |-> t.cluster_reps]
                 ELSE IF fields[REC_TYPE + 1] = <<"S">> /\ cluster_id.ok
                 THEN [ok |-> TRUE,
                       cluster_sizes |-> t.cluster_sizes,
                       cluster_reps |-> MapInsert(t.cluster_reps, cluster_id.v,
                                                  fields[SEQ_ID + 1])]
                 ELSE [ok |-> TRUE, cluster_sizes |-> t.cluster_sizes,
                       cluster_reps |-> t.cluster_reps]

\* the body of the pass-1 loop for the line with number line_num: the lookup
\* tables t after it, or the error
Pass1Line(t, line, line_num) ==
    LET fields == split(line, "\t")
    IN  IF Len(fields) # UC_FIELD_COUNT
        THEN [ok |-> FALSE,
              err |-> [kind |-> "field count", line |-> line_num,
                           expected |-> UC_FIELD_COUNT, found |-> Len(fields)]]
        ELSE LET record_type == fields[REC_TYPE + 1]
                 cluster_id == parse_u64(fields[CLUSTER_ID + 1])
                 cluster_size == parse_u64(fields[SIZE + 1])
             IN  IF record_type = <<"C">>
                 THEN IF ~cluster_id.ok
                      THEN [ok |-> FALSE,
                            err |-> [kind |-> "invalid cluster_id", line |-> line_num,
                                    text |-> fields[CLUSTER_ID + 1]]]
                      ELSE IF ~cluster_size.ok
                      THEN [ok |-> FALSE,
                            err |-> [kind |-> "invalid cluster_size", line |-> line_num,
                                    text |-> fields[SIZE + 1]]]
                      ELSE [ok |-> TRUE,
                            cluster_sizes |-> MapInsert(t.cluster_sizes, cluster_id.v,
                                                        cluster_size.v),
                            cluster_reps |-> t.cluster_reps]
                 ELSE IF record_type = <<"S">>
                 THEN IF ~cluster_id.ok
                      THEN [ok |-> FALSE,
                            err |-> [kind |-> "invalid cluster_id", line |-> line_num,
                                    text |-> fields[CLUSTER_ID + 1]]]
                      ELSE [ok |-> TRUE,
                            cluster_sizes |-> t.cluster_sizes,
                            cluster_reps |-> MapInsert(t.cluster_reps, cluster_id.v,
                                                       fields[SEQ_ID + 1])]
                 ELSE IF record_type = <<"H">>
                 THEN [ok |-> TRUE, cluster_sizes |-> t.cluster_sizes,
                       cluster_reps |-> t.cluster_reps]
                 ELSE [ok |-> FALSE,
                       err |-> [kind |-> "unknown record type", line |-> line_num,
                               record_type |-> fields[REC_TYPE + 1]]]

RECURSIVE Pass1Loop(_, _, _)
\* the pass-1 loop from line line_num on
Pass1Loop(input, line_num, t) ==
    IF line_num > Len(input) THEN t
    ELSE LET r == Pass1Line(t, lines_item(input[line_num]), line_num)
         IN  IF r.ok THEN Pass1Loop(input, line_num + 1, r) ELSE r

\* build_lookup_tables: the two tables, or the first error
build_lookup_tables(input) ==
    Pass1Loop(input, 1, [ok |-> TRUE, cluster_sizes |-> <<>>, cluster_reps |-> <<>>])

\* the nine fields of an output row
OutputRow(seq_id, cluster_id, cluster_rep_id, seq_length, is_cluster_rep, percent_identity, orientation, cigar, cluster_size) ==
    join(<<seq_id, to_string(cluster_id), cluster_rep_id, seq_length, is_cluster_rep,
           percent_identity, orientation, cigar, to_string(cluster_size)>>, "\t")

\* a mutant of Pass2Record: a seed row is written like a hit row
Pass2Record_native(cluster_sizes, line, line_num) ==
    LET fields == split(line, "\t")
        cluster_id == parse_u64(fields[CLUSTER_ID + 1])
    IN  IF Len(fields) # UC_FIELD_COUNT
        THEN [ok |-> FALSE,
              err |-> [kind |-> "field count", line |-> line_num,
                           expected |-> UC_FIELD_COUNT, found |-> Len(fields)]]
        ELSE IF fields[REC_TYPE + 1] \in {<<"H">>, <<"S">>}
        THEN IF ~cluster_id.ok
             THEN [ok |-> FALSE,
                   err |-> [kind |-> "invalid cluster_id", line |-> line_num,
                           text |-> fields[CLUSTER_ID + 1]]]
             ELSE IF cluster_id.v \notin DOMAIN cluster_sizes
             THEN [ok |-> FALSE,
                   err |-> [kind |-> "cluster_id not found in lookup table",
                           line |-> line_num, cluster_id |-> cluster_id.v]]
             ELSE [ok |-> TRUE,
                   rows |-> <<OutputRow(fields[SEQ_ID + 1], cluster_id.v,
                                        fields[CLUSTER_REP_ID + 1], fields[SIZE + 1],
                                        <<"F", "a", "l", "s", "e">>,
                                        fields[PERCENT_ID + 1], fields[ORIENTATION + 1],
                                        fields[CIGAR + 1], cluster_sizes[cluster_id.v])>>]
        ELSE IF fields[REC_TYPE + 1] = <<"C">> THEN [ok |-> TRUE, rows |-> <<>>]
        ELSE [ok |-> FALSE,
              err |-> [kind |-> "unknown record type", line |-> line_num,
                      record_type |-> fields[REC_TYPE + 1]]]

\* the body of the pass-2 loop for the line with number line_num: the rows it
\* writes (one or none), or the error
Pass2Record(cluster_sizes, line, line_num) ==
    LET fields == split(line, "\t")
    IN  IF Len(fields) # UC_FIELD_COUNT
        THEN [ok |-> FALSE,
              err |-> [kind |-> "field count", line |-> line_num,
                           expected |-> UC_FIELD_COUNT, found |-> Len(fields)]]
        ELSE LET record_type == fields[REC_TYPE + 1]
                 cluster_id == parse_u64(fields[CLUSTER_ID + 1])
                 seq_length == parse_u64(fields[SIZE + 1])
             IN  IF record_type = <<"H">>
                 THEN IF ~cluster_id.ok
                      THEN [ok |-> FALSE,
                            err |-> [kind |-> "invalid cluster_id", line |-> line_num,
                                    text |-> fields[CLUSTER_ID + 1]]]
                      ELSE IF cluster_id.v \notin DOMAIN cluster_sizes
                      THEN [ok |-> FALSE,
                            err |-> [kind |-> "cluster_id not found in lookup table",
                                    line |-> line_num, cluster_id |-> cluster_id.v]]
                      ELSE [ok |-> TRUE,
                            rows |-> <<OutputRow(fields[SEQ_ID + 1], cluster_id.v,
                                                 fields[CLUSTER_REP_ID + 1], fields[SIZE + 1],
                                                 <<"F", "a", "l", "s", "e">>,
                                                 fields[PERCENT_ID + 1],
                                                 fields[ORIENTATION + 1], fields[CIGAR + 1],
                                                 cluster_sizes[cluster_id.v])>>]
                 ELSE IF record_type = <<"S">>
                 THEN IF ~cluster_id.ok
                      THEN [ok |-> FALSE,
                            err |-> [kind |-> "invalid cluster_id", line |-> line_num,
                                    text |-> fields[CLUSTER_ID + 1]]]
                      ELSE IF ~seq_length.ok
                      THEN [ok |-> FALSE,
                            err |-> [kind |-> "invalid seq_length", line |-> line_num,
                                    text |-> fields[SIZE + 1]]]
                      ELSE IF cluster_id.v \notin DOMAIN cluster_sizes
                      THEN [ok |-> FALSE,
                            err |-> [kind |-> "cluster_id not found in lookup table",
                                    line |-> line_num, cluster_id |-> cluster_id.v]]
                      ELSE [ok |-> TRUE,
                            rows |-> <<OutputRow(fields[SEQ_ID + 1], cluster_id.v,
                                                 fields[SEQ_ID + 1],
                                                 to_string(seq_length.v),
                                                 <<"T", "r", "u", "e">>,
                                                 <<"1", "0", "0", ".", "0">>, <<"+">>,
                                                 to_string(seq_length.v) \o <<"M">>,
                                                 cluster_sizes[cluster_id.v])>>]
                 ELSE IF record_type = <<"C">> THEN [ok |-> TRUE, rows |-> <<>>]
                 ELSE [ok |-> FALSE,
                       err |-> [kind |-> "unknown record type", line |-> line_num,
                               record_type |-> fields[REC_TYPE + 1]]]

RECURSIVE Pass2Loop(_, _, _, _)
\* the pass-2 loop from line line_num on; out is what the writer holds
Pass2Loop(input, line_num, cluster_sizes, out) ==
    IF line_num > Len(input) THEN [ok |-> TRUE, out |-> out]
    ELSE LET r == Pass2Record(cluster_sizes, lines_item(input[line_num]), line_num)
         IN  IF r.ok THEN Pass2Loop(input, line_num + 1, cluster_sizes, out \o r.rows)
             ELSE [ok |-> FALSE, err |-> r.err, out |-> out]

\* write_tsv_output: the lines written, and the error if one ended the pass
write_tsv_output(input, prefix, cluster_sizes) ==
    Pass2Loop(input, 1, cluster_sizes, <<format_header(prefix)>>)

\* a mutant of ClusterBefore: the smaller cluster goes first
ClusterBefore_asc(a, b) ==
    IF b.size # a.size THEN a.size < b.size ELSE StrLess(a.rep, b.rep)

\* the comparator of sort_by gives Less for (a, b): the larger size first, and
\* for equal sizes the smaller representative id first
ClusterBefore(a, b) ==
    IF b.size # a.size THEN b.size < a.size ELSE StrLess(a.rep, b.rep)

RECURSIVE InsertSorted(_, _)
\* x put into the sorted list after every element that does not come after it
InsertSorted(sorted, x) ==
    IF Len(sorted) = 0 THEN <<x>>
    ELSE IF ClusterBefore(x, sorted[1]) THEN <<x>> \o sorted
    ELSE <<sorted[1]>> \o InsertSorted(Tail(sorted), x)

RECURSIVE SortBy(_, _)
\* Vec::sort_by (a stable sort) of v, after the sorted list acc of the elements
\* before it
SortBy(v, acc) ==
    IF Len(v) = 0 THEN acc ELSE SortBy(Tail(v), InsertSorted(acc, v[1]))

\* write_top_representatives: the lines written, with the entries of
\* cluster_reps iterated in the given order
write_top_representatives(n_clusters, cluster_sizes, cluster_reps, order) ==
    LET with_size == SelectSeq(order, LAMBDA c : c \in DOMAIN cluster_sizes)
        cl == [i \in 1..Len(with_size) |->
                  [size |-> cluster_sizes[with_size[i]], rep |-> cluster_reps[with_size[i]]]]
        sorted == SortBy(cl, <<>>)
        n == Min2(n_clusters, Len(sorted))
    IN  [i \in 1..n |-> sorted[i].rep]

\* a line of the input: an S or a C record as the clustering tool writes it
\* (unused columns hold *), an H record of the sequence h
UcLine(record_type, cluster_id, size, rep) ==
    LET star == <<"*">>
    IN  IF record_type = "H"
        THEN join(<<<<"H">>, to_string(cluster_id), to_string(size), <<"9", "9", ".", "5">>,
                    <<"-">>, <<"0">>, <<"0">>, <<"4", "M">>, <<"h">>, rep>>, "\t")
        ELSE join(<<<<record_type>>, to_string(cluster_id), to_string(size), star, star, star,
                    star, star, rep, star>>, "\t")

\* the clusters of an input: the representative's id and the size of the C record
VsClusterPool ==
    { [rep |-> <<"b">>, size |-> 2], [rep |-> <<"B">>, size |-> 2],
      [rep |-> <<"b">>, size |-> 10] }

\* a well-formed input of the clusters cs (numbered from 0): the S records,
\* the first one followed by a hit unless the layout is "seeds", and the C
\* records after them or, in the layout "summary first", before them
VsFile(cs, layout) ==
    LET seeds == Flatten([k \in 1..Len(cs) |->
                    IF layout # "seeds" /\ k = 1
                    THEN <<UcLine("S", 0, 5, cs[1].rep), UcLine("H", 0, 4, cs[1].rep)>>
                    ELSE <<UcLine("S", k - 1, 5, cs[k].rep)>>])
        summary == [k \in 1..Len(cs) |-> UcLine("C", k - 1, cs[k].size, cs[k].rep)]
    IN  IF layout = "summary first" THEN summary \o seeds ELSE seeds \o summary

VsGoodInputs ==
    { VsFile(cs, layout) : cs \in SeqsUpTo(VsClusterPool, MaxClusters),
                           layout \in {"seeds", "hit", "summary first"} }

\* inputs with a line that ends the run, before or after the lines of a
\* well-formed input of at most one cluster, or both: a line of nine fields,
\* of eleven fields, an empty line, a record of type N, a C record with the
\* cluster id x (all found in pass 1); a hit of a cluster without a C record,
\* an S record with the length L (found in pass 2)
VsBadInputs ==
    LET base == { VsFile(cs, "hit") : cs \in SeqsUpTo(VsClusterPool, 1) }
        seed == split(UcLine("S", 0, 5, <<"a">>), "\t")
        nine == join(SubSeq(seed, 1, 9), "\t")
        bad == { nine,
                 join(seed \o <<<<"*">>>>, "\t"),
                 <<>>,
                 UcLine("N", 0, 5, <<"a">>),
                 join([seed EXCEPT ![1] = <<"C">>, ![2] = <<"x">>], "\t"),
                 UcLine("H", 7, 4, <<"a">>),
                 join([seed EXCEPT ![3] = <<"L">>], "\t") }
    IN  { <<b>> \o g : b \in bad, g \in base }
        \cup { g \o <<b>> : b \in bad, g \in base }
        \cup { <<b>> \o g \o <<nine>> : b \in bad, g \in base }

\* the engine is not used
NoEngine ==
    /\ dedup_params = DefaultDedupParams
    /\ minimizer_params = DefaultMinimizerParams
    /\ id_to_index = <<>>
    /\ index_to_id = <<>>
    /\ buckets = <<>>
    /\ exemplar_store = <<>>
    /\ results = <<>>
    /\ clusters = <<>>
    /\ finalized = FALSE
    /\ ret = [op |-> "none", arg |-> "", id |-> "", pair |-> <<0, 0>>]
    /\ processed = <<>>
    /\ p_in = NoCall
    /\ p_out = NoResult

\* main after Args::parse: -n from 0 to above the number of clusters, and one
\* command line with an output prefix
InitVsearch ==
    /\ \E cli \in { [n_clusters |-> n, output_prefix |-> <<>>] : n \in 0..(MaxClusters + 1) }
                  \cup { [n_clusters |-> 1, output_prefix |-> <<"v">>] },
          input \in VsGoodInputs \cup VsBadInputs :
          args = [tool |-> "process_vsearch_cluster_output", vsearch_db |-> input,
                  n_clusters |-> cli.n_clusters, output_prefix |-> cli.output_prefix]
    /\ NoEngine
    /\ pc = "pass1"
    /\ locals = [cluster_sizes |-> <<>>, cluster_reps |-> <<>>]
    /\ files = <<>>
    /\ exit_status = Running

\* pass 1 builds the two lookup tables
VsBuildLookupTables ==
    /\ pc = "pass1"
    /\ LET r == build_lookup_tables(args.vsearch_db)
       IN  /\ r.ok
           /\ locals' = [cluster_sizes |-> r.cluster_sizes, cluster_reps |-> r.cluster_reps]
    /\ pc' = "pass2"
    /\ UNCHANGED <<engine_vars, p_in, p_out, args, files, exit_status>>

\* pass 1 ends in an error
VsPass1Error ==
    /\ pc = "pass1"
    /\ LET r == build_lookup_tables(args.vsearch_db)
       IN  /\ ~r.ok
           /\ exit_status' = ExitErr(r.err)
    /\ pc' = "exit"
    /\ UNCHANGED <<engine_vars, p_in, p_out, args, locals, files>>

\* pass 2 creates the output table and writes the header and the rows
VsWriteTsvOutput ==
    /\ pc = "pass2"
    /\ LET r == write_tsv_output(args.vsearch_db, args.output_prefix, locals.cluster_sizes)
       IN  /\ r.ok
           /\ files' = [name \in {"output_db"} |-> r.out]
    /\ pc' = "step3"
    /\ UNCHANGED <<engine_vars, p_in, p_out, args, locals, exit_status>>

\* pass 2 ends in an error, the output table holding the rows written so far
VsPass2Error ==
    /\ pc = "pass2"
    /\ LET r == write_tsv_output(args.vsearch_db, args.output_prefix, locals.cluster_sizes)
       IN  /\ ~r.ok
           /\ files' = [name \in {"output_db"} |-> r.out]
           /\ exit_status' = ExitErr(r.err)
    /\ pc' = "exit"
    /\ UNCHANGED <<engine_vars, p_in, p_out, args, locals>>

\* step 3 writes the ids file; the entries of the HashMap cluster_reps are
\* iterated in any order
VsWriteTopRepresentatives ==
    /\ pc = "step3"
    /\ \E order \in [1..Cardinality(DOMAIN locals.cluster_reps) -> DOMAIN locals.cluster_reps] :
          /\ Range(order) = DOMAIN locals.cluster_reps
          /\ files' = [name \in {"output_db", "output_ids"} |->
                          IF name = "output_db" THEN files["output_db"]
                          ELSE write_top_representatives(args.n_clusters,
                                                         locals.cluster_sizes,
                                                         locals.cluster_reps, order)]
    /\ pc' = "exit"
    /\ exit_status' = ExitOk
    /\ UNCHANGED <<engine_vars, p_in, p_out, args, locals>>

NextVsearch ==
    \/ VsBuildLookupTables
    \/ VsPass1Error
    \/ VsWriteTsvOutput
    \/ VsPass2Error
    \/ VsWriteTopRepresentatives

SpecVsearch == InitVsearch /\ [][NextVsearch]_vars

-----------------------------------------------------------------------------
(* Properties of the projection tool, checked under SpecVsearch *)

IsVsearch == args.tool = "process_vsearch_cluster_output"

\* the fields of input line i
UcFields(i) == split(lines_item(args.vsearch_db[i]), "\t")

\* input line i is a record of one of the given types
UcIs(i, types) == Len(UcFields(i)) = 10 /\ UcFields(i)[1] \in types

\* the numbers of the S and H records, in input order
UcDataRecords ==
    SelectSeq([i \in 1..Len(args.vsearch_db) |-> i],
              LAMBDA i : UcIs(i, {<<"S">>, <<"H">>}))

\* pass 2 has ended without an error
VsPass2Done == IsVsearch /\ (pc = "step3" \/ (pc = "exit" /\ exit_status.code = 0))

\* C17: when pass 2 succeeds, the output table is the header of nine columns
\* (the nine names, joined by tabs) followed by one row of nine fields for every S or H record, in input order,
\* and nothing else (no row for a C record).  The row of an S record has the
\* record's own seq_id as cluster_rep_id, True, 100.0, + and <seq_length>M;
\* the row of an H record has the record's representative, identity,
\* orientation and cigar, and False.  The cluster_size of a row is the size of
\* a C record with the row's cluster id, which may stand before or after it.
C17_ProjectionRows ==
    VsPass2Done =>
        LET out == files["output_db"]
            p == IF args.output_prefix = <<>> THEN <<>> ELSE args.output_prefix \o <<"_">>
        IN  /\ out[1] = join(
                   << <<"s", "e", "q", "_", "i", "d">>,
                      p \o <<"c", "l", "u", "s", "t", "e", "r", "_", "i", "d">>,
                      p \o <<"c", "l", "u", "s", "t", "e", "r", "_", "r", "e", "p", "_", "i", "d">>,
                      p \o <<"s", "e", "q", "_", "l", "e", "n", "g", "t", "h">>,
                      p \o <<"i", "s", "_", "c", "l", "u", "s", "t", "e", "r", "_", "r", "e", "p">>,
                      p \o <<"p", "e", "r", "c", "e", "n", "t", "_", "i", "d", "e", "n", "t", "i", "t", "y">>,
                      p \o <<"o", "r", "i", "e", "n", "t", "a", "t", "i", "o", "n">>,
                      p \o <<"c", "i", "g", "a", "r">>,
                      p \o <<"c", "l", "u", "s", "t", "e", "r", "_", "s", "i", "z", "e">> >>, "\t")
            /\ Len(out) = 1 + Len(UcDataRecords)
            /\ \A k \in 1..Len(UcDataRecords) :
                  LET f == UcFields(UcDataRecords[k])
                      row == split(out[k + 1], "\t")
                  IN  /\ Len(row) = 9
                      /\ row[1] = f[9]
                      /\ parse_u64(row[2]) = parse_u64(f[2])
                      /\ parse_u64(row[4]) = parse_u64(f[3])
                      /\ f[1] = <<"S">> =>
                            /\ row[3] = f[9]
                            /\ row[5] = <<"T", "r", "u", "e">>
                            /\ row[6] = <<"1", "0", "0", ".", "0">>
                            /\ row[7] = <<"+">>
                            /\ row[8] = row[4] \o <<"M">>
                      /\ f[1] = <<"H">> =>
                            /\ row[3] = f[10]
                            /\ row[5] = <<"F", "a", "l", "s", "e">>
                            /\ row[6] = f[4]
                            /\ row[7] = f[5]
                            /\ row[8] = f[8]
                      /\ \E j \in 1..Len(args.vsearch_db) :
                            /\ UcIs(j, {<<"C">>})
                            /\ parse_u64(UcFields(j)[2]) = parse_u64(f[2])
                            /\ parse_u64(row[9]) = parse_u64(UcFields(j)[3])

\* pass 2 has written the rows of an input that starts with its C records and
\* has two seeds and a hit, under a prefixed header
C17_Witness ==
    /\ VsPass2Done
    /\ pc = "step3"
    /\ args.output_prefix # <<>>
    /\ Len(UcDataRecords) >= 3
    /\ UcIs(1, {<<"C">>})
    /\ \E i, j \in 1..Len(args.vsearch_db) :
          /\ i # j
          /\ UcIs(i, {<<"S">>})
          /\ UcIs(j, {<<"S">>})
          /\ UcFields(i)[9] # UcFields(j)[9]
    /\ \E i \in 1..Len(args.vsearch_db) : UcIs(i, {<<"H">>})
    /\ Len(files["output_db"]) = 1 + Len(UcDataRecords)

\* the run has ended without an error
VsOk == IsVsearch /\ pc = "exit" /\ exit_status.code = 0

\* the clusters of the input: the cluster ids of its S records
UcClusters ==
    { parse_u64(UcFields(i)[2]).v :
         i \in {j \in 1..Len(args.vsearch_db) : UcIs(j, {<<"S">>})} }

\* the representative of cluster c: the seq_id of its S record
UcRep(c) ==
    CHOOSE r \in {UcFields(i)[9] : i \in 1..Len(args.vsearch_db)} :
        \E i \in 1..Len(args.vsearch_db) :
            /\ UcIs(i, {<<"S">>})
            /\ parse_u64(UcFields(i)[2]).v = c
            /\ r = UcFields(i)[9]

\* the size of cluster c: the size of its C record
UcSize(c) ==
    CHOOSE n \in {parse_u64(UcFields(i)[3]).v : i \in 1..Len(args.vsearch_db)} :
        \E i \in 1..Len(args.vsearch_db) :
            /\ UcIs(i, {<<"C">>})
            /\ parse_u64(UcFields(i)[2]).v = c
            /\ n = parse_u64(UcFields(i)[3]).v

\* cluster c ranks above cluster d: it is larger, or as large with the smaller
\* representative id
RanksAbove(c, d) ==
    \/ UcSize(c) > UcSize(d)
    \/ UcSize(c) = UcSize(d) /\ StrLess(UcRep(c), UcRep(d))

\* C18: when the run succeeds with -n N, the ids file has min(N, number of
\* clusters) lines; they are the representatives of that many different
\* clusters, no line's cluster ranking above the cluster of a line before it
\* (larger size first, ties by representative id ascending), no omitted
\* cluster ranking above an emitted one, and for N at or above the number of
\* clusters every cluster is emitted.
C18_TopN ==
    VsOk =>
        LET out == files["output_ids"]
            n == Cardinality(UcClusters)
        IN  /\ Len(out) = IF args.n_clusters <= n THEN args.n_clusters ELSE n
            /\ \E pick \in [1..Len(out) -> UcClusters] :
                  /\ \A i, j \in 1..Len(out) : pick[i] = pick[j] => i = j
                  /\ \A i \in 1..Len(out) : out[i] = UcRep(pick[i])
                  /\ \A i, j \in 1..Len(out) : i < j => ~RanksAbove(pick[j], pick[i])
                  /\ \A c \in UcClusters \ Range(pick) :
                        \A i \in 1..Len(out) : ~RanksAbove(c, pick[i])
                  /\ args.n_clusters >= n => Range(pick) = UcClusters

\* a run with -n 2 on three clusters: the last one is the largest and is
\* listed first, the other two have one size and the second of them is listed,
\* its id B being below the id b of the first
C18_Witness ==
    /\ VsOk
    /\ args.n_clusters = 2
    /\ UcClusters = {0, 1, 2}
    /\ UcSize(2) = 10 /\ UcSize(0) = 2 /\ UcSize(1) = 2
    /\ UcRep(0) = <<"b">> /\ UcRep(1) = <<"B">>
    /\ files["output_ids"] = <<UcRep(2), <<"B">>>>

\* input line i has not ten fields, or a record type outside C, S and H
UcMalformed(i) ==
    Len(UcFields(i)) # 10 \/ UcFields(i)[1] \notin {<<"C">>, <<"S">>, <<"H">>}

-----------------------------------------------------------------------------
(* concatenate_tsvs: the concatenation tool *)

\* input files on the command line
MaxFiles == 3

\* read_header: the fields of the trimmed first line; none for a file without
\* a line or with an all-empty first line
read_header(file) ==
    IF Len(file) = 0 THEN [some |-> FALSE]
    ELSE LET header == split(trim(lines_item(file[1])), "\t")
         IN  IF \A i \in 1..Len(header) : header[i] = <<>> THEN [some |-> FALSE]
             ELSE [some |-> TRUE, header |-> header]

\* check_headers is Ok: the two headers have the same set of fields
check_headers(header, reference_header) == Range(header) = Range(reference_header)

\* map_headers: for every field of the reference header its index in header
\* (the last one, if it is there twice)
map_headers(header, reference_header) ==
    [k \in 1..Len(reference_header) |->
        (CHOOSE i \in 1..Len(header) :
            /\ header[i] = reference_header[k]
            /\ \A j \in (i + 1)..Len(header) : header[j] # reference_header[k]) - 1]

\* main after Args::parse and open_writer: the files are taken from a pool
\* (headers a b, b a and a c; rows with and without an empty first or last
\* value; a file of a header only; an empty file)
InitConcat ==
    /\ LET ab == <<"a", "\t", "b">>
           ba == <<"b", "\t", "a">>
           pool == { <<ab, <<"1", "\t", "2">>, <<"\t", "3">>>>,
                     <<ba, <<"5", "\t", "6">>, <<"4", "\t">>>>,
                     <<ba, <<"\t", "7">>>>,
                     <<<<"a", "\t", "c">>, <<"8", "\t", "9">>>>,
                     <<ab>>,
                     <<>> }
       IN  \E input_files \in SeqsUpTo(pool, MaxFiles) :
              /\ input_files # <<>>
              /\ args = [tool |-> "concatenate_tsvs", input_files |-> input_files]
    /\ NoEngine
    /\ pc = "first"
    /\ locals = [idx |-> 0, reference_header |-> <<>>]
    /\ files = [name \in {"output_file"} |-> <<>>]
    /\ exit_status = Running

\* the first loop: the header and the lines of the first file that has a
\* header are written, the lines as they are; without such a file the run ends
ConcatFirst ==
    /\ pc = "first"
    /\ LET with_header == {i \in 1..Len(args.input_files) :
                              read_header(args.input_files[i]).some}
       IN  IF with_header = {}
           THEN /\ pc' = "exit"
                /\ exit_status' = ExitOk
                /\ UNCHANGED <<locals, files>>
           ELSE LET first == CHOOSE i \in with_header : \A j \in with_header : i <= j
                    header == read_header(args.input_files[first]).header
                IN  /\ files' = [name \in {"output_file"} |->
                                    <<join(header, "\t")>> \o Tail(args.input_files[first])]
                    /\ locals' = [idx |-> first, reference_header |-> header]
                    /\ pc' = "rest"
                    /\ UNCHANGED exit_status
    /\ UNCHANGED <<engine_vars, p_in, p_out, args>>

\* the second loop, one file: nothing for a file without a header; else every
\* line is trimmed, skipped if empty, split, and written with its fields in
\* the order of the reference header, "" for a field the line does not have
ConcatNext ==
    /\ pc = "rest"
    /\ locals.idx < Len(args.input_files)
    /\ LET file == args.input_files[locals.idx + 1]
           h == read_header(file)
       IN  IF ~h.some THEN UNCHANGED files
           ELSE /\ check_headers(h.header, locals.reference_header)
                /\ LET header_mapping == map_headers(h.header, locals.reference_header)
                       trimmed == [i \in 1..(Len(file) - 1) |-> trim(lines_item(file[i + 1]))]
                       kept == SelectSeq(trimmed, LAMBDA l : l # <<>>)
                       mapped(l) ==
                           LET fields == split(l, "\t")
                           IN  join([k \in 1..Len(header_mapping) |->
                                        IF header_mapping[k] < Len(fields)
                                        THEN fields[header_mapping[k] + 1] ELSE <<>>],
                                    "\t")
                   IN  files' = [name \in {"output_file"} |->
                                    files["output_file"] \o
                                    [i \in 1..Len(kept) |-> mapped(kept[i])]]
    /\ locals' = [locals EXCEPT !.idx = @ + 1]
    /\ UNCHANGED <<engine_vars, p_in, p_out, args, pc, exit_status>>

\* the second loop at a file whose header has other fields
ConcatHeaderError ==
    /\ pc = "rest"
    /\ locals.idx < Len(args.input_files)
    /\ LET h == read_header(args.input_files[locals.idx + 1])
       IN  /\ h.some
           /\ ~check_headers(h.header, locals.reference_header)
    /\ pc' = "exit"
    /\ exit_status' = ExitErr([kind |-> "Headers do not match"])
    /\ UNCHANGED <<engine_vars, p_in, p_out, args, locals, files>>

\* the end of the second loop
ConcatDone ==
    /\ pc = "rest"
    /\ locals.idx = Len(args.input_files)
    /\ pc' = "exit"
    /\ exit_status' = ExitOk
    /\ UNCHANGED <<engine_vars, p_in, p_out, args, locals, files>>

NextConcat ==
    \/ ConcatFirst
    \/ ConcatNext
    \/ ConcatHeaderError
    \/ ConcatDone

SpecConcat == InitConcat /\ [][NextConcat]_vars

-----------------------------------------------------------------------------
(* Property of the concatenation tool, checked under SpecConcat *)

\* the header fields of an input file that has lines
HeaderOf(file) == split(file[1], "\t")

\* the numbers of the input files that have lines, in order
NonEmptyFiles ==
    SelectSeq([i \in 1..Len(args.input_files) |-> i],
              LAMBDA i : Len(args.input_files[i]) > 0)

\* data row r of a file, with its values in the column order of the header ref
RowUnder(file, r, ref) ==
    LET h == HeaderOf(file)
        fields == split(file[r + 1], "\t")
    IN  join([k \in 1..Len(ref) |->
                 fields[CHOOSE i \in 1..Len(h) : h[i] = ref[k]]], "\t")

\* C20: at the end of a run, when no input file has lines the output is empty;
\* else, with the header of the first file that has lines as reference, the
\* run has failed with 'Headers do not match' if a later file that has lines
\* has another set of header fields, and otherwise it has succeeded and the
\* output is the reference header followed by every data row of every input
\* file, in file order then row order, each value under the column name it had
\* in its own file.
C20_Concatenation ==
    (args.tool = "concatenate_tsvs" /\ pc = "exit") =>
        IF Len(NonEmptyFiles) = 0
        THEN exit_status.code = 0 /\ files["output_file"] = <<>>
        ELSE LET ref == HeaderOf(args.input_files[NonEmptyFiles[1]])
                 same == \A k \in 1..Len(NonEmptyFiles) :
                            Range(HeaderOf(args.input_files[NonEmptyFiles[k]])) = Range(ref)
             IN  IF ~same
                 THEN /\ exit_status.code # 0
                      /\ exit_status.err.kind = "Headers do not match"
                 ELSE /\ exit_status.code = 0
                      /\ files["output_file"] =
                            <<join(ref, "\t")>> \o
                            Flatten([k \in 1..Len(NonEmptyFiles) |->
                                LET file == args.input_files[NonEmptyFiles[k]]
                                IN  [r \in 1..(Len(file) - 1) |-> RowUnder(file, r, ref)]])

-----------------------------------------------------------------------------
(* Further properties of the engine (specification Spec) *)

\* a step is a process_read call
IsProcessRead == ret'.op = "process_read" /\ Len(processed') = Len(processed) + 1

\* the read pair of that call, and its index
Incoming == processed'[Len(processed')]

IncomingIdx == Len(processed)

\* the leaders in probe order for the read rp: the lists of the buckets of its
\* forward and then its reverse minimizers, one after the other, every leader
\* at its first place only
ProbeOrder(rp) ==
    LET mins == extract_minimizers(rp.fwd_seq, minimizer_params)
                    \o extract_minimizers(rp.rev_seq, minimizer_params)
        all == Flatten([m \in 1..Len(mins) |->
                          IF mins[m] \in DOMAIN buckets THEN buckets[mins[m]] ELSE <<>>])
        marked == SelectSeq([i \in 1..Len(all) |->
                                [c |-> all[i],
                                 first |-> \A j \in 1..(i - 1) : all[j] # all[i]]],
                            LAMBDA e : e.first)
    IN  [n \in 1..Len(marked) |-> marked[n].c]

\* the stored exemplar of leader c is similar to the read rp
SimilarToLeader(rp, c) ==
    /\ c + 1 <= Len(exemplar_store)
    /\ exemplar_store[c + 1].some
    /\ reads_are_similar(rp, exemplar_store[c + 1], dedup_params)

\* C22 (First match wins): a process_read call assigns the read to the first
\* leader in probe order whose stored exemplar is similar to it, and to itself
\* when there is none; the leaders handed to the similarity test are the probe
\* order up to and including that first hit (so probing stops there, and no
\* leader is tested twice).
C22_FirstMatchWins ==
    [][IsProcessRead =>
          \A order \in {ProbeOrder(Incoming)}, tested \in {Probe(Incoming).tested} :
             \A hits \in {{n \in 1..Len(order) : SimilarToLeader(Incoming, order[n])}} :
                /\ \A i, j \in 1..Len(tested) : tested[i] = tested[j] => i = j
                /\ IF hits = {}
                   THEN /\ results'[IncomingIdx + 1] = IncomingIdx
                        /\ tested = order
                   ELSE LET first == CHOOSE n \in hits : \A k \in hits : n <= k
                        IN  /\ results'[IncomingIdx + 1] = order[first]
                            /\ tested = SubSeq(order, 1, first)]_vars

\* the third read is similar to both leaders, which stand in one bucket; it is
\* tested against the first only and joins it
C22_Witness ==
    /\ ~finalized
    /\ Len(processed) = 3
    /\ results = <<0, 1, 0>>
    /\ \E h \in DOMAIN buckets :
          /\ \E i, j \in 1..Len(buckets[h]) : i < j /\ buckets[h][i] = 0 /\ buckets[h][j] = 1
    /\ reads_are_similar(ReadOf(2), exemplar_store[1], dedup_params)
    /\ reads_are_similar(ReadOf(2), exemplar_store[2], dedup_params)

\* the minimizer hashes of the read pair rp
HashesOf(rp) ==
    Range(extract_minimizers(rp.fwd_seq, minimizer_params))
        \cup Range(extract_minimizers(rp.rev_seq, minimizer_params))

\* C24 (Membership goes through the leader): before finalization, for every
\* read r assigned to a leader c other than itself, the exemplar stored for c
\* holds the forward and reverse sequences of read c, r is similar to it under
\* the engine's max_offset and max_error_frac, and r and c share a minimizer
\* hash; and a process_read call assigns the read to itself or to a leader
\* listed in one of the buckets of the read's minimizers, which are the only
\* leaders it is compared against.
C24_ThroughLeader ==
    /\ [](~finalized =>
            \A r \in Processed :
               LET c == results[r + 1]
               IN  c # r =>
                      /\ c + 1 <= Len(exemplar_store)
                      /\ exemplar_store[c + 1] = ExemplarOf(ReadOf(c))
                      /\ reads_are_similar(ReadOf(r), exemplar_store[c + 1], dedup_params)
                      /\ HashesOf(ReadOf(r)) \cap HashesOf(ReadOf(c)) # {})
    /\ [][IsProcessRead =>
             \/ results'[IncomingIdx + 1] = IncomingIdx
             \/ results'[IncomingIdx + 1] \in Range(ProbeOrder(Incoming))]_vars

\* a read has joined a leader whose forward sequence differs from its own
C24_Witness ==
    /\ ~finalized
    /\ \E r \in Processed :
          /\ results[r + 1] # r
          /\ ReadOf(r).fwd_seq # ReadOf(results[r + 1]).fwd_seq
          /\ Len(ReadOf(r).fwd_seq) # Len(ReadOf(results[r + 1]).fwd_seq)

RECURSIVE SumCounts(_, _)
\* the sum of the counts of the clusters keyed by ks in the map cl
SumCounts(cl, ks) ==
    IF ks = {} THEN 0
    ELSE LET k == CHOOSE x \in ks : TRUE
         IN  cl[k].count + SumCounts(cl, ks \ {k})

\* the reads of the cluster opened by c: before finalize those whose entry is
\* c, after finalize those whose entry is the best member finalize wrote for c
StreamingMembers(c) ==
    IF finalized THEN Members(clusters[c].best_read_idx) ELSE Members(c)

\* C25 (Cluster statistics stay exact): after any sequence of process_read calls
\* on distinct ids, the keys of the cluster-stats map are the leaders the reads
\* were assigned to, each cluster's count is the number of processed reads
\* assigned to its leader, the leader included, and the counts of all clusters
\* sum to the number of reads processed.
C25_ExactCounts ==
    /\ ~finalized => Range(results) = DOMAIN clusters
    /\ \A c \in DOMAIN clusters :
          /\ c \in Processed
          /\ ~finalized => c \in Members(c)
          /\ clusters[c].count = Cardinality(StreamingMembers(c))
    /\ SumCounts(clusters, DOMAIN clusters) = Len(processed)

\* three reads processed: one cluster counts two reads, its best member being
\* the read that joined, and another cluster counts one
C25_Witness ==
    /\ ~finalized
    /\ Len(processed) = 3
    /\ \E c, d \in DOMAIN clusters :
          /\ clusters[c].count = 2
          /\ clusters[c].best_read_idx # c
          /\ clusters[d].count = 1

\* C26 (Leader immutability): a step of the streaming phase keeps every key of
\* the cluster-stats map and the assignment entry of every read processed
\* before it; the entry of an existing cluster changes only in a process_read
\* call, only for the one cluster the incoming read joins, and then its count
\* grows by one and its best member and best score are either both kept or are
\* the incoming read and its score.
C26_LeaderImmutable ==
    [][~finalized' =>
          /\ DOMAIN clusters \subseteq DOMAIN clusters'
          /\ \A r \in Processed : results'[r + 1] = results[r + 1]
          /\ \A c \in DOMAIN clusters :
                clusters'[c] # clusters[c] =>
                   /\ IsProcessRead
                   /\ c = results'[IncomingIdx + 1]
                   /\ c # IncomingIdx
                   /\ clusters'[c].count = clusters[c].count + 1
                   /\ \/ /\ clusters'[c].best_read_idx = clusters[c].best_read_idx
                         /\ clusters'[c].best_score = clusters[c].best_score
                      \/ /\ clusters'[c].best_read_idx = IncomingIdx
                         /\ clusters'[c].best_score = Score(Incoming)]_vars

\* the third read has just joined the cluster of the second and become its
\* best member, next to the cluster of the first
C26_Witness ==
    /\ ~finalized
    /\ ret.op = "process_read"
    /\ results = <<0, 1, 1>>
    /\ clusters[1].best_read_idx = 2
    /\ clusters[0].count = 1

\* the minimizer hashes whose bucket lists the index r
BucketsListing(r) == {h \in DOMAIN buckets : r \in Range(buckets[h])}

\* C27 (Bucket invariant): before finalization, every index stored in a bucket
\* is a key of the cluster-stats map with a stored exemplar, a leader is listed
\* under the minimizer hashes of its own sequences and under no other, and a
\* read that joined an existing cluster is in no bucket and has no exemplar.
C27_BucketInvariant ==
    ~finalized =>
        /\ \A h \in DOMAIN buckets :
              \A i \in 1..Len(buckets[h]) :
                 LET c == buckets[h][i]
                 IN  /\ c \in DOMAIN clusters
                     /\ c + 1 <= Len(exemplar_store)
                     /\ exemplar_store[c + 1].some
        /\ \A c \in DOMAIN clusters : BucketsListing(c) = HashesOf(ReadOf(c))
        /\ \A r \in Processed :
              results[r + 1] # r =>
                 /\ BucketsListing(r) = {}
                 /\ r + 1 <= Len(exemplar_store) => ~exemplar_store[r + 1].some

\* a leader listed under two different hashes, and a read that joined a cluster
\* and was followed by a new leader, so that its exemplar slot exists and is empty
C27_Witness ==
    /\ ~finalized
    /\ \E c \in DOMAIN clusters : Cardinality(BucketsListing(c)) >= 2
    /\ \E r \in Processed :
          /\ results[r + 1] # r
          /\ r + 1 < Len(exemplar_store)
          /\ exemplar_store[r + 1] = NoExemplar

\* C28 (No duplicate leader entries): no bucket's leader list holds the same
\* leader index more than once, so that a leader is listed once per distinct
\* minimizer hash of its read, also when two windows of its forward sequence,
\* or its forward and its reverse sequence, yield the same hash.
C28_NoDuplicateEntries ==
    \A h \in DOMAIN buckets :
       \A i, j \in 1..Len(buckets[h]) : i # j => buckets[h][i] # buckets[h][j]

\* a step of finalize: no other operation answers with op "finalize"
IsFinalize == ret'.op = "finalize"

\* C29 (Finalization is idempotent): a finalize called on a context that is
\* finalized already leaves the assignment table, the cluster-stats map and
\* the registry as they are, and get_cluster_id answers every registered id
\* and an unregistered id as before.
C29_FinalizeIdempotent ==
    [][(finalized /\ IsFinalize) =>
          /\ results' = results
          /\ clusters' = clusters
          /\ id_to_index' = id_to_index
          /\ index_to_id' = index_to_id
          /\ \A read_id \in Range(index_to_id) \cup {UnknownId} :
                get_cluster_id(read_id)' = get_cluster_id(read_id)]_vars

\* finalize has answered on a finalized context in which one cluster's entries
\* name a best member that is not a key of the cluster-stats map and another
\* cluster's entries name its leader; this state is entered by a second
\* finalize from every state a query leaves behind
C29_Witness ==
    /\ finalized
    /\ ret.op = "finalize"
    /\ \E r \in Processed : results[r + 1] \notin DOMAIN clusters
    /\ \E r \in Processed : results[r + 1] \in DOMAIN clusters

\* C30 (Finalize frame): finalize empties the bucket index and the exemplar
\* store, leaves the cluster-stats map and the registry as they were, keeps
\* the length of the assignment table, changes an entry only from a leader
\* index to the best_read_idx of that leader's cluster, and stats() is the
\* same pair before and after.
C30_FinalizeFrame ==
    [][IsFinalize =>
          /\ buckets' = <<>>
          /\ exemplar_store' = <<>>
          /\ clusters' = clusters
          /\ id_to_index' = id_to_index
          /\ index_to_id' = index_to_id
          /\ Len(results') = Len(results)
          /\ \A r \in 0..(Len(results) - 1) :
                results'[r + 1] # results[r + 1] =>
                   /\ results[r + 1] \in DOMAIN clusters
                   /\ results'[r + 1] = clusters[results[r + 1]].best_read_idx
          /\ stats' = stats]_vars

\* finalize has emptied the index of three reads in two clusters, replaced
\* the entry of a leader whose cluster has a better member, and kept another
C30_Witness ==
    /\ finalized
    /\ ret.op = "finalize"
    /\ buckets = <<>>
    /\ exemplar_store = <<>>
    /\ stats = <<MaxReads, 2>>
    /\ \E c \in DOMAIN clusters : results[c + 1] # c
    /\ \E c \in DOMAIN clusters : results[c + 1] = c

====
